---- MODULE Spec2Model ----
(***************************************************************************)
(* Reconciliation engine of Zogwine/metadata: the TV show scan             *)
(* orchestrator (TVSScraper.Scan), the per folder state machine            *)
(* (processItemScan, addTVS, updateTVS, updateTVSEpisodes), the selection  *)
(* applier (UpdateWithSelectionResult) and the manual selection entry      *)
(* point (SelectScraperResult).                                            *)
(***************************************************************************)
EXTENDS Integers, Sequences, FiniteSets, TLC

(***************************************************************************)
(* Bounds of the model.                                                    *)
(***************************************************************************)
MaxScans == 2        \* number of Scan calls in one behaviour
MaxFaults == 1       \* number of provider / store / filesystem errors injected
MaxConcurrent == 2   \* largest conf.MaxConcurrentScans tried (0..MaxConcurrent)
MaxExternal == 2     \* number of external catalog edits (freeze / enable)

(***************************************************************************)
(* Program constants.                                                      *)
(***************************************************************************)
ScoreThreshold == 85     \* SelectBestItem: match.Score > 85
ForceMode == 1           \* UpdateWithSelectionResult: UpdateMode: 1
JustUpdated == -1        \* updateTVS & co: UpdateMode: -1
Frozen == 0              \* processItemScan: data.UpdateMode > 0 is "updates allowed"
DefaultUpdateMode == 1   \* update mode of a row created by AddShow
ClearedScraperName == " "   \* UpdateShowAllSeasons / UpdateShowAllEpisodes
ClearedScraperID == "0"

(***************************************************************************)
(* Generic helpers.                                                        *)
(***************************************************************************)
Range(s) == {s[i] : i \in DOMAIN s}

RECURSIVE SeqFilterIdx(_, _, _)
\* indices i >= from of s whose element is in the set keep, in order
SeqFilterIdx(s, keep, from) ==
  IF from > Len(s) THEN <<>>
  ELSE IF s[from] \in keep THEN <<from>> \o SeqFilterIdx(s, keep, from + 1)
       ELSE SeqFilterIdx(s, keep, from + 1)

\* util.Index: position of the first element equal to x, 0 when absent
\* (the Go code returns -1 on a 0-based slice; positions here are 1-based)
Index(s, x) ==
  IF \E i \in DOMAIN s : s[i] = x
  THEN CHOOSE i \in DOMAIN s : s[i] = x /\ \A j \in 1..(i - 1) : s[j] # x
  ELSE 0

\* util.Contains
Contains(s, x) == \E i \in DOMAIN s : s[i] = x

\* Op at the value of x: a call result that is used several times is
\* computed once
At(x, Op(_)) == CHOOSE y \in {Op(v) : v \in {x}} : TRUE

(***************************************************************************)
(* The library on disk.  It does not change during a behaviour.            *)
(* A file name is a sequence of characters.                                *)
(***************************************************************************)
LibItems ==
  << [name |-> "A", dir |-> TRUE],
     [name |-> "B", dir |-> TRUE],
     [name |-> "n", dir |-> FALSE] >>

NumItems == Len(LibItems)

\* ListFiles(tvsPath, true) filtered by file.IsVideo
VideoFiles(folder) ==
  CASE folder = "A" -> << <<"S", "1", "E", "1">>, <<"s", "1", "e", "2">>,
                          <<"s", "1", "E", "1">> >>
    [] folder = "B" -> << <<"S", "2", "E", "1">>, <<"E", "5">> >>
    [] OTHER -> <<>>

(***************************************************************************)
(* Filename identifier extraction (RegexSeason, RegexEpisode).             *)
(***************************************************************************)
Digits == {"0", "1", "2", "3", "4", "5", "6", "7", "8", "9"}
IsS(c) == c \in {"s", "S"}
IsE(c) == c \in {"e", "E"}

DigitVal(c) ==
  CASE c = "0" -> 0 [] c = "1" -> 1 [] c = "2" -> 2 [] c = "3" -> 3 [] c = "4" -> 4
    [] c = "5" -> 5 [] c = "6" -> 6 [] c = "7" -> 7 [] c = "8" -> 8 [] c = "9" -> 9

RECURSIVE DigitRunEnd(_, _)
\* last index of the maximal run of digits of f starting at i (i - 1 if none)
DigitRunEnd(f, i) ==
  IF i <= Len(f) /\ f[i] \in Digits THEN DigitRunEnd(f, i + 1) ELSE i - 1

RECURSIVE Atoi(_, _, _)
\* strconv.Atoi of the digits f[from..to]
Atoi(f, from, to) ==
  IF from > to THEN 0 ELSE Atoi(f, from, to - 1) * 10 + DigitVal(f[to])

\* `(?i)(?:s)(\d+)(?:e)` matches at position i
SeasonMatchAt(f, i) ==
  /\ i <= Len(f) /\ IsS(f[i])
  /\ DigitRunEnd(f, i + 1) >= i + 1
  /\ DigitRunEnd(f, i + 1) + 1 <= Len(f)
  /\ IsE(f[DigitRunEnd(f, i + 1) + 1])

\* `(?i)(?:s\d+e)(\d+)` matches at position i
EpisodeMatchAt(f, i) ==
  /\ SeasonMatchAt(f, i)
  /\ At(DigitRunEnd(f, i + 1) + 2, LAMBDA e : DigitRunEnd(f, e) >= e)

\* RegexSeason.FindStringSubmatch: capture of the leftmost match, -1 if none
RegexSeason(f) ==
  IF \E i \in 1..Len(f) : SeasonMatchAt(f, i)
  THEN At(CHOOSE k \in 1..Len(f) :
            SeasonMatchAt(f, k) /\ \A j \in 1..(k - 1) : ~SeasonMatchAt(f, j),
          LAMBDA i : At(DigitRunEnd(f, i + 1), LAMBDA to : Atoi(f, i + 1, to)))
  ELSE -1

\* RegexEpisode.FindStringSubmatch: capture of the leftmost match, -1 if none
RegexEpisode(f) ==
  IF \E i \in 1..Len(f) : EpisodeMatchAt(f, i)
  THEN At(CHOOSE k \in 1..Len(f) :
            EpisodeMatchAt(f, k) /\ \A j \in 1..(k - 1) : ~EpisodeMatchAt(f, j),
          LAMBDA i : At(DigitRunEnd(f, i + 1) + 2,
          LAMBDA e : At(DigitRunEnd(f, e), LAMBDA to : Atoi(f, e, to))))
  ELSE -1

\* lines 444-449: the (season, episode) pair of a file name, ok when both
\* patterns have a match with a capture that is not empty
Extract(f) ==
  At(RegexSeason(f), LAMBDA season :
  At(RegexEpisode(f), LAMBDA episode :
    IF season >= 0 /\ episode >= 0
    THEN [ok |-> TRUE, season |-> season, episode |-> episode]
    ELSE [ok |-> FALSE, season |-> 0, episode |-> 0]))

(***************************************************************************)
(* Metadata providers (common.TVShowProvider).  One instance per provider  *)
(* name is held in t.Providers and used by every processItemScan.          *)
(***************************************************************************)
ProviderNames == <<"p1", "p2">>

NoBinding == [id |-> "", data |-> ""]

\* common.SearchData.Premiered of a date: Unix time, counted in months here
Premiered(year, month) == (year - 1970) * 12 + (month - 1)

Cand(title, pname, id, premiered) ==
  [title |-> title, scraperName |-> pname, scraperID |-> id,
   scraperData |-> "d", premiered |-> premiered]

\* provider.SearchTVS(title): the candidates of provider pname
SearchTVS(pname, title) ==
  CASE pname = "p1" /\ title = "A" -> << Cand("A", "p1", "a1", Premiered(2001, 3)) >>
    [] pname = "p1" /\ title = "B" -> << Cand("B", "p1", "b1", Premiered(2002, 3)) >>
    [] pname = "p2" /\ title = "A" -> << Cand("A II", "p2", "a2", Premiered(2011, 3)) >>
    [] OTHER -> <<>>

\* what the provider knows about the show it is configured for
KnownSeasons(id) ==
  CASE id = "a1" -> {1} [] id = "a2" -> {1} [] OTHER -> {}

KnownEpisodes(id) ==
  CASE id = "a1" -> {<<1, 1>>} [] id = "b1" -> {<<2, 1>>} [] OTHER -> {}

\* the title the providers have for a show
ProviderTitle(id) ==
  CASE id = "a1" -> "A" [] id = "b1" -> "B" [] id = "a2" -> "A II" [] OTHER -> id

\* provider.GetTVS(): the show the provider is configured for
GetTVS(cfg) == [title |-> ProviderTitle(cfg.id), scraperData |-> cfg.data]

\* provider.ListTVSTag() / ListTVSPerson(): one tag and one person per show
ListTVSTag(cfg) == << "tag-" \o cfg.id >>
ListTVSPerson(cfg) == << "actor-" \o cfg.id >>

(***************************************************************************)
(* Match selector.                                                         *)
(***************************************************************************)
\* time.Unix(premiered, 0).Year()
YearOf(premiered) == 1970 + (premiered \div 12)

\* The scorer of fuzzy.ExtractOne (package go-fuzzywuzzy, not part of the
\* repository): both strings are processed (lower case), then the weighted
\* ratio is taken: 100 for equal processed strings, 95 for the same tokens
\* in another order, and the ratio of the edit distance otherwise.
\* The processing of the titles of the model:
Process(s) ==
  CASE s = "A" -> "a" [] s = "B" -> "b" [] s = "A II" -> "a ii"
    [] s = "II A" -> "ii a" [] s = "A I" -> "a i" [] s = "A III" -> "a iii"
    [] OTHER -> s

\* the tokens of a processed string, sorted
TokenSort(s) == IF s = "ii a" THEN "a ii" ELSE s

\* ratio (0..100) of two processed strings with different tokens
Ratio(p, q) ==
  CASE {p, q} = {"a ii", "a iii"} -> 86
    [] {p, q} = {"a ii", "a i"} -> 85
    [] {p, q} = {"a", "a ii"} -> 60
    [] OTHER -> 0

\* fuzzy score of a candidate title against the target title (0..100)
Score(title, name) ==
  IF Process(name) = Process(title) THEN 100
  ELSE IF TokenSort(Process(name)) = TokenSort(Process(title)) THEN 95
  ELSE Ratio(TokenSort(Process(title)), TokenSort(Process(name)))

RECURSIVE BestIndexLast(_, _, _)
RECURSIVE BestIndex(_, _, _)
\* variant: index of the last name with the highest score
BestIndexLast(title, names, upto) ==
  IF upto = 1 THEN 1
  ELSE LET b == BestIndexLast(title, names, upto - 1)
       IN IF Score(title, names[upto]) >= Score(title, names[b]) THEN upto ELSE b

\* fuzzy.ExtractOne: index of the first name with the highest score
BestIndex(title, names, upto) ==
  IF upto = 1 THEN 1
  ELSE LET b == BestIndex(title, names, upto - 1)
       IN IF Score(title, names[upto]) > Score(title, names[b]) THEN upto ELSE b

\* common.SearchData{}, errors.New("no data")
NoData == [ok |-> FALSE, item |-> Cand("", "", "", 0), err |-> "no data"]

\* variant: the year is not looked at
YearFilterOff(items, year) == items

\* lines 33-41: the candidates the year leaves
YearFilter(items, year) ==
  IF year > 0
  THEN LET idx == SeqFilterIdx(items, {c \in Range(items) : YearOf(c.premiered) = year}, 1)
       IN [i \in 1..Len(idx) |-> items[idx[i]]]
  ELSE items

\* variant: a score of 85 is enough
AcceptedFrom85(score) == score >= ScoreThreshold

\* line 50: match.Score > 85
Accepted(score) == score > ScoreThreshold

\* line 51: searchItems[util.Index(names, match.Match)]
Pick(searchItems, names, match) == searchItems[Index(names, match)]

SelectBestItem(items, title, year) ==
  LET searchItems == YearFilter(items, year)
      names == [i \in 1..Len(searchItems) |-> searchItems[i].title]
  IN IF Len(names) = 0 THEN NoData
     ELSE LET b == BestIndex(title, names, Len(names))
          IN IF Accepted(Score(title, names[b]))
             THEN [ok |-> TRUE, item |-> Pick(searchItems, names, names[b]), err |-> ""]
             ELSE NoData

(***************************************************************************)
(* The persisted store (package database).  Rows are kept in insertion     *)
(* order; the id of a show or an episode is its position.                  *)
(***************************************************************************)
EmptyDB ==
  [shows |-> <<>>, seasons |-> <<>>, episodes |-> <<>>, videoFiles |-> <<>>,
   batches |-> {}, tagLinks |-> {}, personLinks |-> {}, tags |-> {}, persons |-> {}]

ShowRow(title, pname, id, data, mode) ==
  [title |-> title, path |-> title, scraperName |-> pname, scraperID |-> id,
   scraperData |-> data, mode |-> mode]

\* ListShow: the rows with their ids
ListShow(d) == [i \in 1..Len(d.shows) |->
  [id |-> i, title |-> d.shows[i].title, path |-> d.shows[i].path,
   scraperName |-> d.shows[i].scraperName, scraperID |-> d.shows[i].scraperID,
   scraperData |-> d.shows[i].scraperData, mode |-> d.shows[i].mode]]

AddShow(d, title) ==
  [d EXCEPT !.shows = Append(@, ShowRow(title, "", "", "", DefaultUpdateMode))]

Keep(new, old) == IF new = "" THEN old ELSE new

\* UpdateShow: columns given as "" keep their value, update_mode is written
UpdateShow(d, p) ==
  IF p.id \notin DOMAIN d.shows THEN d
  ELSE [d EXCEPT !.shows[p.id] =
          [title |-> Keep(p.title, @.title), path |-> @.path,
           scraperName |-> Keep(p.scraperName, @.scraperName),
           scraperID |-> Keep(p.scraperID, @.scraperID),
           scraperData |-> Keep(p.scraperData, @.scraperData),
           mode |-> p.mode]]

UpdateShowAllSeasons(d, idShow, pname, id, mode) ==
  [d EXCEPT !.seasons = [i \in DOMAIN @ |->
     IF @[i].idShow = idShow
     THEN [@[i] EXCEPT !.scraperName = pname, !.scraperID = id, !.mode = mode]
     ELSE @[i]]]

UpdateShowAllEpisodes(d, idShow, pname, id, mode) ==
  [d EXCEPT !.episodes = [i \in DOMAIN @ |->
     IF @[i].idShow = idShow
     THEN [@[i] EXCEPT !.scraperName = pname, !.scraperID = id, !.mode = mode]
     ELSE @[i]]]

DeleteAllTagLinks(d, idShow) ==
  [d EXCEPT !.tagLinks = {l \in @ : l[1] # idShow}]

DeleteAllPersonLinks(d, idShow) ==
  [d EXCEPT !.personLinks = {l \in @ : l[1] # idShow}]

\* ListShowSeason: the season rows of a show, in insertion order
ListShowSeason(d, idShow) ==
  LET idx == SeqFilterIdx(d.seasons, {r \in Range(d.seasons) : r.idShow = idShow}, 1)
  IN [i \in 1..Len(idx) |-> d.seasons[idx[i]]]

SeasonRow(idShow, season, title, pname, id) ==
  [idShow |-> idShow, season |-> season, title |-> title,
   scraperName |-> pname, scraperID |-> id, mode |-> JustUpdated]

\* AddShowSeason: (show id, season number) is unique, a second insert is rejected
AddShowSeason(d, row) ==
  IF \E r \in Range(d.seasons) : r.idShow = row.idShow /\ r.season = row.season
  THEN d
  ELSE [d EXCEPT !.seasons = Append(@, row)]

\* UpdateShowSeason: keyed by (show id, season number)
UpdateShowSeason(d, row) ==
  [d EXCEPT !.seasons = [i \in DOMAIN @ |->
     IF @[i].idShow = row.idShow /\ @[i].season = row.season THEN row ELSE @[i]]]

EpisodeRow(idShow, season, episode, title, pname, id) ==
  [idShow |-> idShow, season |-> season, episode |-> episode, title |-> title,
   scraperName |-> pname, scraperID |-> id, mode |-> JustUpdated]

\* (show id, season number, episode number) is unique: is the key taken
HasEpisodeRow(d, idShow, season, episode) ==
  \E r \in Range(d.episodes) :
    r.idShow = idShow /\ r.season = season /\ r.episode = episode

\* variant: the store takes a second row for a key
AddShowEpisodeAnyKey(d, row) == [d EXCEPT !.episodes = Append(@, row)]

\* AddShowEpisode: the new row gets the next id; a second insert of a key is
\* rejected with an error
AddShowEpisode(d, row) ==
  IF HasEpisodeRow(d, row.idShow, row.season, row.episode)
  THEN d
  ELSE [d EXCEPT !.episodes = Append(@, row)]

\* UpdateShowEpisode: keyed by episode id; season and episode number are kept
UpdateShowEpisode(d, idEp, title, pname, id) ==
  [d EXCEPT !.episodes[idEp] =
     [@ EXCEPT !.title = title, !.scraperName = pname, !.scraperID = id,
               !.mode = JustUpdated]]

\* GetVideoFileFromPath: id of the episode of the first entry for p, 0 if none
GetVideoFileFromPath(d, p) ==
  LET i == Index([k \in DOMAIN d.videoFiles |-> d.videoFiles[k].path], p)
  IN IF i = 0 THEN 0 ELSE d.videoFiles[i].mediaData

\* file.AddVideoFile
AddVideoFile(d, p, idEp) ==
  [d EXCEPT !.videoFiles = Append(@, [path |-> p, mediaData |-> idEp])]

\* candidate batches, keyed by (media kind, media id)
HasBatch(d, mediaType, mediaData) ==
  \E b \in d.batches : b.mediaType = mediaType /\ b.mediaData = mediaData

GetMultipleResultsByMedia(d, mediaType, mediaData) ==
  CHOOSE b \in d.batches : b.mediaType = mediaType /\ b.mediaData = mediaData

DeleteMultipleResultsByMedia(d, mediaType, mediaData) ==
  [d EXCEPT !.batches =
     {b \in @ : ~(b.mediaType = mediaType /\ b.mediaData = mediaData)}]

AddMultipleResultsRow(d, mediaType, mediaData, results, name) ==
  [d EXCEPT !.batches = @ \cup
     {[mediaType |-> mediaType, mediaData |-> mediaData, data |-> results,
       name |-> name]}]

(***************************************************************************)
(* Selection applier.                                                      *)
(***************************************************************************)
SelectionResult(c) ==
  [scraperName |-> c.scraperName, scraperID |-> c.scraperID,
   scraperData |-> c.scraperData]

NumSelectionSteps == 5

\* variant: the tag links are not deleted
SelectionStepKeepsTagLinks(d, id, selection, k) ==
  CASE k = 1 -> UpdateShow(d, [id |-> id, title |-> "",
                               scraperID |-> selection.scraperID,
                               scraperName |-> selection.scraperName,
                               scraperData |-> selection.scraperData,
                               mode |-> ForceMode])
    [] k = 2 -> UpdateShowAllSeasons(d, id, ClearedScraperName, ClearedScraperID, ForceMode)
    [] k = 3 -> UpdateShowAllEpisodes(d, id, ClearedScraperName, ClearedScraperID, ForceMode)
    [] k = 4 -> d
    [] k = 5 -> DeleteAllPersonLinks(d, id)

\* the k-th store call of UpdateWithSelectionResult
SelectionStep(d, id, selection, k) ==
  CASE k = 1 -> UpdateShow(d, [id |-> id, title |-> "",
                               scraperID |-> selection.scraperID,
                               scraperName |-> selection.scraperName,
                               scraperData |-> selection.scraperData,
                               mode |-> ForceMode])
    [] k = 2 -> UpdateShowAllSeasons(d, id, ClearedScraperName, ClearedScraperID, ForceMode)
    [] k = 3 -> UpdateShowAllEpisodes(d, id, ClearedScraperName, ClearedScraperID, ForceMode)
    [] k = 4 -> DeleteAllTagLinks(d, id)
    [] k = 5 -> DeleteAllPersonLinks(d, id)

RECURSIVE SelectionFromNoAbort(_, _, _, _, _)
\* variant: a failing call is reported at the end, the later calls are made
SelectionFromNoAbort(d, id, selection, k, failAt) ==
  IF k > NumSelectionSteps THEN [db |-> d, err |-> failAt # 0]
  ELSE IF k = failAt THEN SelectionFromNoAbort(d, id, selection, k + 1, failAt)
  ELSE At(SelectionStep(d, id, selection, k),
          LAMBDA d1 : SelectionFromNoAbort(d1, id, selection, k + 1, failAt))

RECURSIVE SelectionFrom(_, _, _, _, _)
\* the calls k, k+1, ... in order; the call number failAt returns an error
SelectionFrom(d, id, selection, k, failAt) ==
  IF k > NumSelectionSteps THEN [db |-> d, err |-> FALSE]
  ELSE IF k = failAt THEN [db |-> d, err |-> TRUE]
  ELSE At(SelectionStep(d, id, selection, k),
          LAMBDA d1 : SelectionFrom(d1, id, selection, k + 1, failAt))

\* failAt = 0: no store call fails
UpdateWithSelectionResult(d, id, selection, failAt) ==
  SelectionFrom(d, id, selection, 1, failAt)

(***************************************************************************)
(* Candidate batches and manual selection.                                 *)
(***************************************************************************)
MediaTypeTvs == "tvs"
MediaTypes == {"tvs", "movie"}

\* F: the store calls that fail
AddMultipleResults(d, mediaType, mediaData, searchResults, name, F) ==
  IF "DeleteMultipleResultsByMedia" \in F THEN d
  ELSE LET d1 == DeleteMultipleResultsByMedia(d, mediaType, mediaData)
       IN IF "AddMultipleResults" \in F THEN d1
          ELSE AddMultipleResultsRow(d1, mediaType, mediaData, searchResults, name)

\* variant: the batch is deleted before the candidate is applied
SelectScraperResultDeleteFirst(d, mediaType, mediaData, id, failAt, F) ==
  IF ~HasBatch(d, mediaType, mediaData) \/ "GetMultipleResultsByMedia" \in F
  THEN [db |-> d, res |-> "error", at |-> "get"]
  ELSE LET searchData == GetMultipleResultsByMedia(d, mediaType, mediaData).data
       IN IF mediaType # MediaTypeTvs THEN [db |-> d, res |-> "error", at |-> "type"]
          ELSE IF id < 0 \/ id >= Len(searchData)
          THEN [db |-> d, res |-> "panic", at |-> "index"]
          ELSE IF "DeleteMultipleResultsByMedia" \in F
          THEN [db |-> d, res |-> "error", at |-> "delete"]
          ELSE LET d1 == DeleteMultipleResultsByMedia(d, mediaType, mediaData)
                   u == UpdateWithSelectionResult(d1, mediaData,
                           SelectionResult(searchData[id + 1]), failAt)
               IN IF u.err THEN [db |-> u.db, res |-> "error", at |-> "apply"]
                  ELSE [db |-> u.db, res |-> "ok", at |-> "return"]

\* id is the 0-based index of the Go code; failAt is the failing call of
\* UpdateWithSelectionResult (0: none); at names the statement that ended the call
SelectScraperResult(d, mediaType, mediaData, id, failAt, F) ==
  IF ~HasBatch(d, mediaType, mediaData) \/ "GetMultipleResultsByMedia" \in F
  THEN [db |-> d, res |-> "error", at |-> "get"]
  ELSE LET searchData == GetMultipleResultsByMedia(d, mediaType, mediaData).data
       IN IF mediaType # MediaTypeTvs THEN [db |-> d, res |-> "error", at |-> "type"]
          \* searchData[id] is evaluated for the call of line 120
          ELSE IF id < 0 \/ id >= Len(searchData)
          THEN [db |-> d, res |-> "panic", at |-> "index"]
          ELSE LET u == UpdateWithSelectionResult(d, mediaData,
                           SelectionResult(searchData[id + 1]), failAt)
               IN IF u.err THEN [db |-> u.db, res |-> "error", at |-> "apply"]
                  ELSE IF Len(searchData) < id
                  THEN [db |-> u.db, res |-> "error", at |-> "check"]
                  ELSE IF "DeleteMultipleResultsByMedia" \in F
                  THEN [db |-> u.db, res |-> "error", at |-> "delete"]
                  ELSE [db |-> DeleteMultipleResultsByMedia(u.db, mediaType, mediaData),
                        res |-> "ok", at |-> "return"]

(***************************************************************************)
(* Per folder state machine: the parts of processItemScan.  Each operator  *)
(* takes the store d, the local row data and the set F of calls that fail, *)
(* and returns the new store, the new local values and w, whether a store  *)
(* write was issued.                                                       *)
(***************************************************************************)
NewRow(title) ==
  [id |-> 0, title |-> title, path |-> "", scraperName |-> "", scraperID |-> "",
   scraperData |-> "", mode |-> 0]

\* names of the calls that can fail
SearchCall(pname) == "SearchTVS " \o pname
SelectionCall(k) ==
  CASE k = 1 -> "UpdateShow (selection)" [] k = 2 -> "UpdateShowAllSeasons"
    [] k = 3 -> "UpdateShowAllEpisodes" [] k = 4 -> "DeleteAllTagLinks"
    [] k = 5 -> "DeleteAllPersonLinks"

RECURSIVE SearchAllNewestFirst(_, _, _)
RECURSIVE SearchAll(_, _, _)
\* variant: the results of a provider are put before those found so far
SearchAllNewestFirst(title, k, F) ==
  IF k > Len(ProviderNames) THEN <<>>
  ELSE SearchAllNewestFirst(title, k + 1, F)
         \o (IF SearchCall(ProviderNames[k]) \in F THEN <<>>
             ELSE SearchTVS(ProviderNames[k], title))

\* the search loop of addTVS over t.ProviderNames[k..]
SearchAll(title, k, F) ==
  IF k > Len(ProviderNames) THEN <<>>
  ELSE (IF SearchCall(ProviderNames[k]) \in F THEN <<>>
        ELSE SearchTVS(ProviderNames[k], title)) \o SearchAll(title, k + 1, F)

\* the first failing call of UpdateWithSelectionResult named by F
FailAt(F) ==
  IF \E k \in 1..NumSelectionSteps : SelectionCall(k) \in F
  THEN CHOOSE k \in 1..NumSelectionSteps :
         SelectionCall(k) \in F /\ \A j \in 1..(k - 1) : SelectionCall(j) \notin F
  ELSE 0

\* variant: without candidates nothing is added, whatever the option
GivesUpWhenEmpty(searchResults, addUnknown) == Len(searchResults) = 0

\* line 231: no candidate and no wish for shows without data
GivesUp(searchResults, addUnknown) == Len(searchResults) = 0 /\ ~addUnknown

\* addTVS up to its return or its call of updateTVS (call = TRUE)
addTVS(d, data, autoAdd, addUnknown, F) ==
  At(SearchAll(data.title, 1, F), LAMBDA searchResults :
    IF GivesUp(searchResults, addUnknown)
    THEN [db |-> d, data |-> data, err |-> TRUE, call |-> FALSE, w |-> FALSE]
    ELSE IF data.id = 0 /\ "AddShow" \in F
    THEN [db |-> d, data |-> data, err |-> TRUE, call |-> FALSE, w |-> TRUE]
    ELSE
      At(IF data.id = 0 THEN AddShow(d, data.title) ELSE d, LAMBDA d1 :
      At(IF data.id = 0 THEN [data EXCEPT !.id = Len(d1.shows)] ELSE data, LAMBDA data1 :
      At(SelectBestItem(searchResults, data1.title, 0), LAMBDA selected :
        IF autoAdd /\ selected.ok
        THEN [db |-> UpdateWithSelectionResult(d1, data1.id,
                        SelectionResult(selected.item), FailAt(F)).db,
              data |-> [data1 EXCEPT !.scraperID = selected.item.scraperID,
                                     !.scraperName = selected.item.scraperName,
                                     !.scraperData = selected.item.scraperData,
                                     !.path = data1.title],
              err |-> FALSE, call |-> TRUE, w |-> TRUE]
        ELSE [db |-> AddMultipleResults(d1, MediaTypeTvs, data1.id, searchResults,
                                        data1.title, F),
              data |-> data1, err |-> FALSE, call |-> FALSE, w |-> TRUE]))))

\* getProviderFromName
HasProvider(pname) == \E i \in DOMAIN ProviderNames : ProviderNames[i] = pname

\* variant: UpdateShow is given the update mode the show has
updateTVSShowKeepsMode(d, data, cfg, F) ==
  IF "GetTVS" \in F
  THEN [db |-> d, data |-> data, err |-> TRUE, w |-> FALSE]
  ELSE IF "UpdateShow" \in F
  THEN [db |-> d, data |-> data, err |-> TRUE, w |-> TRUE]
  ELSE LET tvs == GetTVS(cfg)
       IN [db |-> UpdateShow(d, [id |-> data.id, title |-> tvs.title,
                                 scraperID |-> "", scraperName |-> "",
                                 scraperData |-> tvs.scraperData,
                                 mode |-> data.mode]),
           data |-> [data EXCEPT !.title = tvs.title, !.scraperData = tvs.scraperData],
           err |-> FALSE, w |-> TRUE]

\* updateTVS, lines 283-307: GetTVS and UpdateShow; cfg is what the provider
\* instance is configured for when GetTVS runs
updateTVSShow(d, data, cfg, F) ==
  IF "GetTVS" \in F
  THEN [db |-> d, data |-> data, err |-> TRUE, w |-> FALSE]
  ELSE IF "UpdateShow" \in F
  THEN [db |-> d, data |-> data, err |-> TRUE, w |-> TRUE]
  ELSE LET tvs == GetTVS(cfg)
       IN [db |-> UpdateShow(d, [id |-> data.id, title |-> tvs.title,
                                 scraperID |-> "", scraperName |-> "",
                                 scraperData |-> tvs.scraperData,
                                 mode |-> JustUpdated]),
           data |-> [data EXCEPT !.title = tvs.title, !.scraperData = tvs.scraperData],
           err |-> FALSE, w |-> TRUE]

\* AddTag for each tag: the tag is created on first use, then linked
AddTags(d, id, tagData, F) ==
  IF "AddTag" \in F THEN d
  ELSE [d EXCEPT !.tags = @ \cup Range(tagData),
                 !.tagLinks = @ \cup {<<id, x>> : x \in Range(tagData)}]

AddPersons(d, id, persData, F) ==
  IF "AddPerson" \in F THEN d
  ELSE [d EXCEPT !.persons = @ \cup Range(persData),
                 !.personLinks = @ \cup {<<id, x>> : x \in Range(persData)}]

\* updateTVS, lines 309-316
updateTVSTags(d, data, cfg, F) ==
  IF "ListTVSTag" \in F THEN [db |-> d, err |-> TRUE]
  ELSE [db |-> AddTags(d, data.id, ListTVSTag(cfg), F), err |-> FALSE]

\* updateTVS, lines 318-327
updateTVSPersons(d, data, cfg, F) ==
  IF "ListTVSPerson" \in F THEN [db |-> d, err |-> TRUE]
  ELSE [db |-> AddPersons(d, data.id, ListTVSPerson(cfg), F), err |-> FALSE]

\* updateTVS after provider.Configure, lines 283-327
updateTVS(d, data, cfg, F) ==
  At(updateTVSShow(d, data, cfg, F), LAMBDA r1 :
    IF r1.err THEN r1
    ELSE At(updateTVSTags(r1.db, r1.data, cfg, F), LAMBDA r2 :
      IF r2.err THEN [db |-> r2.db, data |-> r1.data, err |-> TRUE, w |-> TRUE]
      ELSE At(updateTVSPersons(r2.db, r1.data, cfg, F), LAMBDA r3 :
        [db |-> r3.db, data |-> r1.data, err |-> r3.err, w |-> TRUE])))

(***************************************************************************)
(* Seasons and episodes of one show.  cfg is what the provider instance is *)
(* configured for when the call runs, pname the name of the provider.      *)
(***************************************************************************)
\* strconv.Itoa for the numbers of the model
Itoa(n) ==
  CASE n = 0 -> "0" [] n = 1 -> "1" [] n = 2 -> "2" [] n = 3 -> "3" [] n = 4 -> "4"
    [] n = 5 -> "5" [] n = 6 -> "6" [] n = 7 -> "7" [] n = 8 -> "8" [] n = 9 -> "9"
    [] OTHER -> "N"

RECURSIVE FileName(_)
\* the file name as a string
FileName(f) == IF Len(f) = 0 THEN "" ELSE f[1] \o FileName(Tail(f))

\* provider.GetTVSSeason / GetTVSEpisode: does the configured show have it
HasSeason(cfg, season, F) == "GetTVSSeason" \notin F /\ season \in KnownSeasons(cfg.id)
HasEpisode(cfg, season, episode, F) ==
  "GetTVSEpisode" \notin F /\ <<season, episode>> \in KnownEpisodes(cfg.id)

RECURSIVE RefreshSeasons(_, _, _, _, _, _)
\* the loop of updateTVSSeasons over rows[k..]
RefreshSeasons(d, rows, k, cfg, pname, F) ==
  IF k > Len(rows) THEN d
  ELSE LET i == rows[k]
       IN At(IF i.mode > 0 /\ HasSeason(cfg, i.season, F)
                /\ "UpdateShowSeason" \notin F
             THEN UpdateShowSeason(d, SeasonRow(i.idShow, i.season,
                      cfg.id \o "-s" \o Itoa(i.season), pname, cfg.id))
             ELSE d,
             LAMBDA d1 : RefreshSeasons(d1, rows, k + 1, cfg, pname, F))

\* asked: a provider call was made
updateTVSSeasons(d, cfg, pname, idshow, F) ==
  IF "ListShowSeason" \in F
  THEN [db |-> d, seasons |-> <<>>, err |-> TRUE, w |-> FALSE, asked |-> FALSE]
  ELSE LET seasonData == ListShowSeason(d, idshow)
       IN [db |-> RefreshSeasons(d, seasonData, 1, cfg, pname, F),
           seasons |-> [i \in 1..Len(seasonData) |-> seasonData[i].season],
           err |-> FALSE,
           w |-> \E i \in Range(seasonData) : i.mode > 0 /\ HasSeason(cfg, i.season, F),
           asked |-> \E i \in Range(seasonData) : i.mode > 0]

\* variant: the episode is refreshed whatever its update mode
updateKnownEpisodeAnyMode(d, cfg, pname, seasons, idEp, F) ==
  IF idEp \in DOMAIN d.episodes /\ "GetShowEpisode" \notin F
  THEN LET episodeData == d.episodes[idEp]
       IN [db |-> IF HasEpisode(cfg, episodeData.season, episodeData.episode, F)
                     /\ "UpdateShowEpisode" \notin F
                  THEN UpdateShowEpisode(d, idEp,
                         cfg.id \o "-s" \o Itoa(episodeData.season) \o "e"
                                \o Itoa(episodeData.episode), pname, cfg.id)
                  ELSE d,
           seasons |-> seasons, w |-> TRUE, asked |-> TRUE, calls |-> {}]
  ELSE [db |-> d, seasons |-> seasons, w |-> FALSE, asked |-> FALSE, calls |-> {}]

\* lines 411-438: the file already has an entry
updateKnownEpisode(d, cfg, pname, seasons, idEp, F) ==
  IF idEp \in DOMAIN d.episodes /\ "GetShowEpisode" \notin F /\ d.episodes[idEp].mode > 0
  THEN LET episodeData == d.episodes[idEp]
       IN [db |-> IF HasEpisode(cfg, episodeData.season, episodeData.episode, F)
                     /\ "UpdateShowEpisode" \notin F
                  THEN UpdateShowEpisode(d, idEp,
                         cfg.id \o "-s" \o Itoa(episodeData.season) \o "e"
                                \o Itoa(episodeData.episode), pname, cfg.id)
                  ELSE d,
           seasons |-> seasons, w |-> TRUE, asked |-> TRUE, calls |-> {}]
  ELSE [db |-> d, seasons |-> seasons, w |-> FALSE, asked |-> FALSE, calls |-> {}]

\* lines 451-488: add the season if it is not in the list
addUnknownSeason(d, cfg, pname, season, idshow, F) ==
  IF "AddShowSeason" \in F THEN d
  ELSE IF HasSeason(cfg, season, F)
  THEN AddShowSeason(d, SeasonRow(idshow, season,
                        cfg.id \o "-s" \o Itoa(season), pname, cfg.id))
  ELSE AddShowSeason(d, SeasonRow(idshow, season, "Season " \o Itoa(season), "", ""))

\* variant: an episode the provider has no data for is added whatever the
\* add-unknown option is
addEpisodeAlways(d, cfg, pname, season, episode, p, filename, idshow, addUnknown, F) ==
  IF TRUE
  THEN IF "AddShowEpisode" \in F
       THEN [db |-> d, w |-> TRUE, calls |-> {"AddShowEpisode"}]
       ELSE LET row == IF HasEpisode(cfg, season, episode, F)
                       THEN EpisodeRow(idshow, season, episode,
                              cfg.id \o "-s" \o Itoa(season) \o "e" \o Itoa(episode),
                              pname, cfg.id)
                       ELSE EpisodeRow(idshow, season, episode, FileName(filename), "", "")
            IN At(AddShowEpisode(d, row), LAMBDA d1 :
                 IF Len(d1.episodes) = Len(d.episodes)
                 THEN [db |-> d, w |-> TRUE, calls |-> {"AddShowEpisode"}]
                 ELSE [db |-> IF "AddVideoFile" \in F THEN d1
                              ELSE AddVideoFile(d1, p, Len(d1.episodes)),
                       w |-> TRUE, calls |-> {"AddShowEpisode", "AddVideoFile"}])
  ELSE [db |-> d, w |-> FALSE, calls |-> {}]

\* lines 490-539: add the episode and register the file; AddShowEpisode
\* returns an error when it fails and when the store rejects the key
addEpisode(d, cfg, pname, season, episode, p, filename, idshow, addUnknown, F) ==
  IF HasEpisode(cfg, season, episode, F) \/ addUnknown
  THEN IF "AddShowEpisode" \in F
       THEN [db |-> d, w |-> TRUE, calls |-> {"AddShowEpisode"}]
       ELSE LET row == IF HasEpisode(cfg, season, episode, F)
                       THEN EpisodeRow(idshow, season, episode,
                              cfg.id \o "-s" \o Itoa(season) \o "e" \o Itoa(episode),
                              pname, cfg.id)
                       ELSE EpisodeRow(idshow, season, episode, FileName(filename), "", "")
            IN At(AddShowEpisode(d, row), LAMBDA d1 :
                 IF Len(d1.episodes) = Len(d.episodes)
                 THEN [db |-> d, w |-> TRUE, calls |-> {"AddShowEpisode"}]
                 ELSE [db |-> IF "AddVideoFile" \in F THEN d1
                              ELSE AddVideoFile(d1, p, Len(d1.episodes)),
                       w |-> TRUE, calls |-> {"AddShowEpisode", "AddVideoFile"}])
  ELSE [db |-> d, w |-> FALSE, calls |-> {}]

\* updateTVSEpisode for the file filename of the show folder path
updateTVSEpisode(d, cfg, pname, seasons, path, filename, idshow, addUnknown, F) ==
  At(<<path, FileName(filename)>>, LAMBDA p :
  At(IF "GetVideoFileFromPath" \in F THEN 0 ELSE GetVideoFileFromPath(d, p),
     LAMBDA idEp :
     IF idEp # 0
     THEN updateKnownEpisode(d, cfg, pname, seasons, idEp, F)
     ELSE At(RegexSeason(filename), LAMBDA season :
          At(RegexEpisode(filename), LAMBDA episode :
            IF season >= 0 /\ episode >= 0
            THEN LET newSeason == ~Contains(seasons, season)
                 IN At(IF newSeason
                       THEN addUnknownSeason(d, cfg, pname, season, idshow, F)
                       ELSE d, LAMBDA d1 :
                    At(addEpisode(d1, cfg, pname, season, episode, p, filename,
                                  idshow, addUnknown, F), LAMBDA r :
                      [db |-> r.db,
                       seasons |-> IF newSeason THEN Append(seasons, season)
                                   ELSE seasons,
                       w |-> newSeason \/ r.w, asked |-> TRUE,
                       calls |-> IF newSeason THEN r.calls \cup {"AddShowSeason"}
                                 ELSE r.calls]))
            ELSE [db |-> d, seasons |-> seasons, w |-> FALSE, asked |-> FALSE,
                  calls |-> {}]))))

(***************************************************************************)
(* State.                                                                  *)
(***************************************************************************)
VARIABLES
  db,        \* the persisted store
  provCfg,   \* per provider instance: the binding given to the last Configure
  t,         \* the TVSScraper fields set by Scan, and conf.MaxConcurrentScans
  phase,     \* "idle", "running" (inside Scan) or "returned"
  result,    \* what Scan returned: "none", "nil" or "error"
  tvsData,   \* the ListShow rows read at the start of Scan
  nextItem,  \* position of the loop over items in Scan
  sem,       \* slots of the weighted semaphore that are held
  wg,        \* counter of the WaitGroup
  proc,      \* per item of the listing: the state of its processItemScan
  wrote,     \* a store write was issued since Scan was called
  start,     \* facts about the store when Scan was called
  selRet,    \* arguments and outcome of the last SelectScraperResult
  pending,   \* a selection that failed part way and what it was to achieve
  faults,    \* errors injected so far
  scans,     \* Scan calls so far
  ext,       \* external calls so far
  call       \* arguments and result of a call of a function without state

vars == <<db, provCfg, t, phase, result, tvsData, nextItem, sem, wg, proc, wrote,
          start, selRet, pending, faults, scans, ext, call>>

Items == 1..NumItems

IdleProc ==
  [pc |-> "idle", data |-> NewRow(""), cfg |-> NoBinding, err |-> FALSE,
   seasons |-> <<>>, fi |-> 0, mis |-> FALSE, n |-> 0, calls |-> {}, selErr |-> 0]

NoSelRet ==
  [res |-> "none", at |-> "", failAt |-> 0, mediaType |-> "", mediaData |-> 0, id |-> 0,
   rich |-> FALSE]

NoPending == [active |-> FALSE, mediaData |-> 0, id |-> 0, goal |-> EmptyDB]

NoStart == [fail |-> FALSE, frozen |-> FALSE, quiet |-> FALSE, same |-> FALSE,
            lookupErr |-> FALSE]

\* catalogs a behaviour starts from: nothing known yet, or both folders known
\* and bound by an earlier manual selection
KnownDB ==
  [EmptyDB EXCEPT !.shows = << ShowRow("A", "p1", "a1", "d", ForceMode),
                               ShowRow("B", "p1", "b1", "d", ForceMode) >>]

\* the catalog after a scan without auto-add of the empty catalog, a manual
\* selection of the first candidate of "A" whose batch deletion failed, and a
\* second scan without add-unknown
RichDB ==
  [shows |-> << ShowRow("A", "p1", "a1", "d", JustUpdated),
                ShowRow("B", "", "", "", DefaultUpdateMode) >>,
   seasons |-> << SeasonRow(1, 1, "a1-s1", "p1", "a1") >>,
   episodes |-> << EpisodeRow(1, 1, 1, "a1-s1e1", "p1", "a1") >>,
   videoFiles |-> << [path |-> <<"A", "S1E1">>, mediaData |-> 1] >>,
   batches |-> { [mediaType |-> MediaTypeTvs, mediaData |-> 1, name |-> "A",
                  data |-> SearchTVS("p1", "A") \o SearchTVS("p2", "A")],
                 [mediaType |-> MediaTypeTvs, mediaData |-> 2, name |-> "B",
                  data |-> SearchTVS("p1", "B")] },
   tagLinks |-> {<<1, "tag-a1">>}, personLinks |-> {<<1, "actor-a1">>},
   tags |-> {"tag-a1"}, persons |-> {"actor-a1"}]

InitCatalogs == {EmptyDB, KnownDB, RichDB}

NoCall == [op |-> "none"]

\* the engine before the first call, on the catalog d
InitEngine(d) ==
  /\ db = d
  /\ provCfg = [p \in Range(ProviderNames) |-> NoBinding]
  /\ t = [AutoAdd |-> FALSE, AddUnknown |-> TRUE, MaxConcurrentScans |-> 1]
  /\ phase = "idle"
  /\ result = "none"
  /\ tvsData = <<>>
  /\ nextItem = 1
  /\ sem = 0
  /\ wg = 0
  /\ proc = [i \in Items |-> IdleProc]
  /\ wrote = FALSE
  /\ start = NoStart
  /\ selRet = NoSelRet
  /\ pending = NoPending
  /\ faults = 0
  /\ scans = 0
  /\ ext = 0

Init == \E d \in InitCatalogs : InitEngine(d) /\ call = NoCall

RECURSIVE SubsetsUpTo(_, _)
\* the subsets of points with at most k elements
SubsetsUpTo(points, k) ==
  IF k <= 0 THEN {{}}
  ELSE LET S == SubsetsUpTo(points, k - 1)
       IN S \cup {F \cup {p} : F \in S, p \in points}

\* the sets of calls among points that may fail in one step
Faults(points) == SubsetsUpTo(points, MaxFaults - faults)

\* every failure of F changes what the step R does: a failure of a call the
\* step does not reach is no failure
Effective(F, R(_)) == \A x \in F : R(F) # R(F \ {x})

(***************************************************************************)
(* Facts about the store at the call of Scan.                              *)
(***************************************************************************)
AllFrozen(d) ==
  /\ \A r \in Range(d.shows) : r.mode = Frozen
  /\ \A r \in Range(d.seasons) : r.mode = Frozen
  /\ \A r \in Range(d.episodes) : r.mode = Frozen

Extractable(f) == RegexSeason(f) >= 0 /\ RegexEpisode(f) >= 0

\* every folder is a known show, and every file of a bound show that yields a
\* (season, episode) pair has a video file entry
AllRegistered(d) ==
  \A i \in Items : LibItems[i].dir =>
    LET k == Index([j \in DOMAIN d.shows |-> d.shows[j].path], LibItems[i].name)
    IN /\ k # 0
       /\ d.shows[k].scraperID # "" =>
            \A f \in Range(VideoFiles(d.shows[k].path)) :
              Extractable(f) =>
                GetVideoFileFromPath(d, <<d.shows[k].path, FileName(f)>>) # 0

(***************************************************************************)
(* Scan: lines 116-168.                                                    *)
(***************************************************************************)
\* variant: the error of ListShow is dropped
ScanPrologueIgnoresListShow(F) ==
  IF "GetLibrary" \in F \/ "ReadDir" \in F THEN "error" ELSE "none"

\* lines 123-144: the calls made before the first entry is processed
ScanPrologue(F) ==
  IF "GetLibrary" \in F \/ "ListShow" \in F \/ "ReadDir" \in F THEN "error" ELSE "none"

\* variant: the semaphore never blocks
SemCanAcquireAlways(held, size) == TRUE

\* sem.Acquire(ctx, 1) can take a slot
SemCanAcquire(held, size) == held + 1 <= size

\* variant: Scan returns without waiting for the goroutines
WaitDoneAlways(counter) == TRUE

\* wg.Wait() returns
WaitDone(counter) == counter = 0

Sequential == t.MaxConcurrentScans < 2

StartScan(autoAdd, addUnknown, n, F) ==
  /\ phase = "idle"
  /\ scans < MaxScans
  /\ Cardinality(F) <= 1
  /\ scans' = scans + 1
  /\ faults' = faults + Cardinality(F)
  /\ t' = [AutoAdd |-> autoAdd, AddUnknown |-> addUnknown, MaxConcurrentScans |-> n]
  /\ start' = [fail |-> F # {},
               frozen |-> AllFrozen(db) /\ Len(db.shows) > 0,
               quiet |-> AllFrozen(db) /\ AllRegistered(db),
               same |-> scans > 0 /\ result = "nil" /\ t.AutoAdd = autoAdd
                        /\ t.AddUnknown = addUnknown,
               lookupErr |-> FALSE]
  /\ proc' = [i \in Items |-> IdleProc]
  /\ nextItem' = 1
  /\ sem' = 0
  /\ wg' = 0
  /\ wrote' = FALSE
  /\ selRet' = NoSelRet
  /\ pending' = NoPending
  /\ IF ScanPrologue(F) = "error"
     THEN /\ phase' = "returned"
          /\ result' = "error"
          /\ tvsData' = <<>>
     ELSE /\ phase' = "running"
          /\ result' = "none"
          /\ tvsData' = ListShow(db)
  /\ provCfg' = [p \in Range(ProviderNames) |-> NoBinding]
  /\ UNCHANGED <<call, db, ext>>

\* one iteration of the loop over items: call processItemScan, or start the
\* goroutine that calls it once the semaphore has a slot
Spawn ==
  /\ phase = "running"
  /\ nextItem <= NumItems
  /\ IF Sequential
     THEN /\ \A j \in 1..(nextItem - 1) : proc[j].pc = "done"
          /\ UNCHANGED <<sem, wg>>
     ELSE /\ SemCanAcquire(sem, t.MaxConcurrentScans)
          /\ sem' = sem + 1
          /\ wg' = wg + 1
  /\ proc' = [proc EXCEPT ![nextItem].pc = "begin", ![nextItem].n = @ + 1]
  /\ nextItem' = nextItem + 1
  /\ UNCHANGED <<call, db, provCfg, t, phase, result, tvsData, wrote, start, selRet,
                 pending, faults, scans, ext>>

\* processItemScan returned: sem.Release(1) and the deferred wg.Done()
Finish(i) ==
  /\ proc[i].pc = "ret"
  /\ proc' = [proc EXCEPT ![i].pc = "done"]
  /\ IF Sequential THEN UNCHANGED <<sem, wg>>
     ELSE sem' = sem - 1 /\ wg' = wg - 1
  /\ UNCHANGED <<call, db, provCfg, t, phase, result, tvsData, nextItem, wrote, start,
                 selRet, pending, faults, scans, ext>>

\* the loop is over and wg.Wait() returned: return nil
Return ==
  /\ phase = "running"
  /\ nextItem > NumItems
  /\ IF Sequential THEN \A j \in Items : proc[j].pc = "done" ELSE WaitDone(wg)
  /\ phase' = "returned"
  /\ result' = "nil"
  /\ UNCHANGED <<call, db, provCfg, t, tvsData, nextItem, sem, wg, proc, wrote, start,
                 selRet, pending, faults, scans, ext>>

\* the caller has the result of Scan; the TVSScraper and its providers, made
\* by NewTVSScraper for this one call, are dropped
EndScan ==
  /\ phase = "returned"
  /\ phase' = "idle"
  /\ provCfg' = [p \in Range(ProviderNames) |-> NoBinding]
  /\ tvsData' = <<>>
  /\ nextItem' = 1
  /\ sem' = 0
  /\ wg' = 0
  /\ proc' = [i \in Items |-> IdleProc]
  /\ wrote' = FALSE
  /\ start' = NoStart
  /\ UNCHANGED <<call, db, t, result, selRet, pending, faults, scans, ext>>

(***************************************************************************)
(* processItemScan, one step per call that other goroutines can interleave *)
(* with.                                                                   *)
(***************************************************************************)
\* variant: a frozen show is updated as well
UpdatesAllowedOrFrozen(mode) == mode >= 0

\* the update mode allows an automatic update (line 185)
UpdatesAllowed(mode) == mode > 0

\* no provider is associated (line 187)
Unbound(data) ==
  data.scraperID = "" \/ data.scraperName = "" \/ data.scraperName = ClearedScraperName

\* variant: the episodes are processed after a failed show part as well
AfterShowDespiteError(data, err) == IF data.scraperID # "" THEN "epCfg" ELSE "ret"

\* variant: the episodes are processed whether or not a provider is bound
AfterShowAnyBinding(data, err) == IF ~err THEN "epCfg" ELSE "ret"

\* line 206: where processItemScan goes after the show part
AfterShow(data, err) == IF ~err /\ data.scraperID # "" THEN "epCfg" ELSE "ret"

\* lines 174-204: the branch taken for the entry
Begin(i) ==
  /\ proc[i].pc = "begin"
  /\ LET item == LibItems[i]
         currentShow == Index([j \in DOMAIN tvsData |-> tvsData[j].path], item.name)
         data == IF currentShow > 0 THEN tvsData[currentShow] ELSE NewRow(item.name)
         pc == IF ~item.dir THEN "ret"
               ELSE IF currentShow > 0
               THEN IF UpdatesAllowed(data.mode)
                    THEN IF Unbound(data) THEN "addTVS" ELSE "cfg"
                    ELSE AfterShow(data, FALSE)
               ELSE "addTVS"
     IN proc' = [proc EXCEPT ![i].pc = pc, ![i].data = data]
  /\ UNCHANGED <<call, db, provCfg, t, phase, result, tvsData, nextItem, sem, wg, wrote,
                 start, selRet, pending, faults, scans, ext>>

AddTVSPoints ==
  {SearchCall(ProviderNames[k]) : k \in DOMAIN ProviderNames}
    \cup {"AddShow", "DeleteMultipleResultsByMedia", "AddMultipleResults"}
    \cup {SelectionCall(k) : k \in 1..NumSelectionSteps}

AddTVS(i, F) ==
  /\ proc[i].pc = "addTVS"
  /\ LET R(G) == addTVS(db, proc[i].data, t.AutoAdd, t.AddUnknown, G)
         r == R(F)
     IN /\ Effective(F, R)
        /\ db' = r.db
        /\ wrote' = (wrote \/ r.w)
        /\ proc' = [proc EXCEPT ![i].data = r.data, ![i].err = r.err,
                                ![i].selErr = IF r.call THEN FailAt(F) ELSE 0,
                                ![i].pc = IF r.call THEN "cfg"
                                          ELSE AfterShow(r.data, r.err)]
  /\ faults' = faults + Cardinality(F)
  /\ UNCHANGED <<call, provCfg, t, phase, result, tvsData, nextItem, sem, wg, start,
                 selRet, pending, scans, ext>>

\* getProviderFromName and provider.Configure, in updateTVS (lines 276-280)
\* and in updateTVSEpisodes (lines 339-343)
Configure(i) ==
  /\ proc[i].pc \in {"cfg", "epCfg"}
  /\ LET data == proc[i].data
         binding == [id |-> data.scraperID, data |-> data.scraperData]
     IN IF HasProvider(data.scraperName)
        THEN /\ provCfg' = [provCfg EXCEPT ![data.scraperName] = binding]
             /\ proc' = [proc EXCEPT ![i].cfg = binding,
                           ![i].pc = IF proc[i].pc = "cfg" THEN "getTVS" ELSE "seasons"]
        ELSE /\ provCfg' = provCfg
             /\ proc' = [proc EXCEPT ![i].err = TRUE, ![i].pc = "ret"]
  /\ UNCHANGED <<call, db, t, phase, result, tvsData, nextItem, sem, wg, wrote, start,
                 selRet, pending, faults, scans, ext>>

\* the provider instance answers for what it is configured for at that moment
Answer(i) == provCfg[proc[i].data.scraperName]
Misanswered(i) == Answer(i) # proc[i].cfg

UpdateTVS(i, F) ==
  /\ proc[i].pc = "getTVS"
  /\ LET R(G) == updateTVS(db, proc[i].data, Answer(i), G)
         r == R(F)
     IN /\ Effective(F, R)
        /\ db' = r.db
        /\ wrote' = (wrote \/ r.w)
        /\ proc' = [proc EXCEPT ![i].data = r.data, ![i].err = r.err,
                                ![i].mis = @ \/ Misanswered(i),
                                ![i].pc = AfterShow(r.data, r.err)]
  /\ faults' = faults + Cardinality(F)
  /\ UNCHANGED <<call, provCfg, t, phase, result, tvsData, nextItem, sem, wg, start,
                 selRet, pending, scans, ext>>

\* updateTVSEpisodes, line 346, and the start of the loop over the files
Seasons(i, F) ==
  /\ proc[i].pc = "seasons"
  /\ LET data == proc[i].data
         R(G) == updateTVSSeasons(db, Answer(i), data.scraperName, data.id, G)
         r == R(F)
     IN /\ Effective(F, R)
        /\ db' = r.db
        /\ wrote' = (wrote \/ r.w)
        /\ proc' = [proc EXCEPT ![i].err = r.err, ![i].seasons = r.seasons,
                                ![i].mis = @ \/ (r.asked /\ Misanswered(i)),
                                ![i].fi = 1,
                                ![i].pc = IF r.err \/ Len(VideoFiles(data.path)) = 0
                                          THEN "ret" ELSE "file"]
  /\ faults' = faults + Cardinality(F)
  /\ UNCHANGED <<call, provCfg, t, phase, result, tvsData, nextItem, sem, wg, start,
                 selRet, pending, scans, ext>>

ProloguePoints == {"GetLibrary", "ListShow", "ReadDir"}
ShowPoints ==
  {"GetTVS", "UpdateShow", "ListTVSTag", "AddTag", "ListTVSPerson", "AddPerson"}
SeasonPoints == {"ListShowSeason", "GetTVSSeason", "UpdateShowSeason"}

FilePoints ==
  {"GetVideoFileFromPath", "GetShowEpisode", "GetTVSSeason", "GetTVSEpisode",
   "AddShowSeason", "AddShowEpisode", "AddVideoFile", "UpdateShowEpisode"}

\* one iteration of the loop of updateTVSEpisodes: updateTVSEpisode
File(i, F) ==
  /\ proc[i].pc = "file"
  /\ LET data == proc[i].data
         files == VideoFiles(data.path)
         R(G) == updateTVSEpisode(db, Answer(i), data.scraperName, proc[i].seasons,
                                  data.path, files[proc[i].fi], data.id, t.AddUnknown, G)
         r == R(F)
     IN /\ Effective(F, R)
        /\ db' = r.db
        /\ wrote' = (wrote \/ r.w)
        /\ proc' = [proc EXCEPT ![i].seasons = r.seasons,
                                ![i].mis = @ \/ (r.asked /\ Misanswered(i)),
                                ![i].calls = r.calls,
                                ![i].fi = @ + 1,
                                ![i].pc = IF proc[i].fi >= Len(files) THEN "ret"
                                          ELSE "file"]
  /\ start' = [start EXCEPT !.lookupErr = @ \/ "GetVideoFileFromPath" \in F]
  /\ faults' = faults + Cardinality(F)
  /\ UNCHANGED <<call, provCfg, t, phase, result, tvsData, nextItem, sem, wg,
                 selRet, pending, scans, ext>>

(***************************************************************************)
(* External calls, made while no scan runs.                                *)
(***************************************************************************)
\* the show has seasons, episodes, tag links and person links
HasDependents(d, idShow) ==
  /\ \E r \in Range(d.seasons) : r.idShow = idShow
  /\ \E r \in Range(d.episodes) : r.idShow = idShow
  /\ \E l \in d.tagLinks : l[1] = idShow
  /\ \E l \in d.personLinks : l[1] = idShow

SelectPoints ==
  {"GetMultipleResultsByMedia", "DeleteMultipleResultsByMedia"}
    \cup {SelectionCall(k) : k \in 1..NumSelectionSteps}

\* the manual selection entry point
ManualSelect(mediaType, mediaData, id, F) ==
  /\ phase = "idle"
  /\ ext < MaxExternal
  /\ LET R(G) == SelectScraperResult(db, mediaType, mediaData, id, FailAt(G), G)
         r == R(F)
         again == /\ pending.active /\ mediaType = MediaTypeTvs
                  /\ pending.mediaData = mediaData /\ pending.id = id
     IN /\ Effective(F, R)
        /\ db' = r.db
        /\ selRet' = [res |-> r.res, at |-> r.at, failAt |-> FailAt(F),
                      mediaType |-> mediaType, mediaData |-> mediaData, id |-> id,
                      rich |-> HasDependents(db, mediaData)]
        /\ pending' =
             IF r.at = "apply"
             THEN IF again THEN pending
                  ELSE [active |-> TRUE, mediaData |-> mediaData, id |-> id,
                        goal |-> SelectScraperResult(db, mediaType, mediaData, id, 0, {}).db]
             ELSE IF r.at \in {"delete", "return"}
             THEN IF again THEN pending ELSE NoPending
             ELSE pending
  /\ ext' = ext + 1
  /\ faults' = faults + Cardinality(F)
  /\ UNCHANGED <<call, provCfg, t, phase, result, tvsData, nextItem, sem, wg, proc, wrote,
                 start, scans>>

\* a user sets the update mode of a show
SetUpdateMode(k, mode) ==
  /\ phase = "idle"
  /\ ext < MaxExternal
  /\ k \in DOMAIN db.shows
  /\ db.shows[k].mode # mode
  /\ db' = [db EXCEPT !.shows[k].mode = mode]
  /\ ext' = ext + 1
  /\ selRet' = NoSelRet
  /\ pending' = NoPending
  /\ UNCHANGED <<call, provCfg, t, phase, result, tvsData, nextItem, sem, wg, proc, wrote,
                 start, faults, scans>>

\* a user freezes the whole catalog
FreezeAll ==
  /\ phase = "idle"
  /\ ext < MaxExternal
  /\ ~AllFrozen(db)
  /\ db' = [db EXCEPT !.shows = [k \in DOMAIN @ |-> [@[k] EXCEPT !.mode = Frozen]],
                      !.seasons = [k \in DOMAIN @ |-> [@[k] EXCEPT !.mode = Frozen]],
                      !.episodes = [k \in DOMAIN @ |-> [@[k] EXCEPT !.mode = Frozen]]]
  /\ ext' = ext + 1
  /\ selRet' = NoSelRet
  /\ pending' = NoPending
  /\ UNCHANGED <<call, provCfg, t, phase, result, tvsData, nextItem, sem, wg, proc, wrote,
                 start, faults, scans>>

(***************************************************************************)
(* Specification.                                                          *)
(***************************************************************************)
MaxBatch == 2   \* longest candidate batch of the model: one candidate per provider

ScanStep ==
  \/ Spawn
  \/ \E i \in Items : Begin(i)
  \/ \E i \in Items : proc[i].pc = "addTVS" /\ \E F \in Faults(AddTVSPoints) : AddTVS(i, F)
  \/ \E i \in Items : Configure(i)
  \/ \E i \in Items : proc[i].pc = "getTVS" /\ \E F \in Faults(ShowPoints) : UpdateTVS(i, F)
  \/ \E i \in Items : proc[i].pc = "seasons" /\ \E F \in Faults(SeasonPoints) : Seasons(i, F)
  \/ \E i \in Items : proc[i].pc = "file" /\ \E F \in Faults(FilePoints) : File(i, F)
  \/ \E i \in Items : Finish(i)
  \/ Return

\* Scan(idlib, conf) is called; conf.MaxConcurrentScans is drawn from sizes;
\* with fixed, a later call uses the options of the first one
CallScan(sizes, fixed) ==
  /\ phase = "idle"
  /\ \E autoAdd \in BOOLEAN, addUnknown \in BOOLEAN, n \in sizes :
       /\ fixed /\ scans > 0 => autoAdd = t.AutoAdd /\ addUnknown = t.AddUnknown
       /\ \E F \in Faults(ProloguePoints) : StartScan(autoAdd, addUnknown, n, F)

CallSelect ==
  /\ phase = "idle"
  /\ \E mediaType \in MediaTypes, mediaData \in 1..(Len(db.shows) + 1),
        id \in (-1)..MaxBatch :
       \E F \in Faults(SelectPoints) : ManualSelect(mediaType, mediaData, id, F)

CallSetUpdateMode ==
  \E k \in DOMAIN db.shows : \E mode \in {Frozen, ForceMode} : SetUpdateMode(k, mode)

Next ==
  \/ CallScan(1..MaxConcurrent, FALSE)
  \/ ScanStep
  \/ EndScan
  \/ CallSelect
  \/ CallSetUpdateMode
  \/ FreezeAll

Spec == Init /\ [][Next]_vars

\* one Scan call, sequential or concurrent, on a catalog nobody else touches
NextScan ==
  \/ scans = 0 /\ CallScan(1..MaxConcurrent, FALSE)
  \/ ScanStep
  \/ EndScan

ScanSpec == Init /\ [][NextScan]_vars

\* sequential Scan calls, all with the same options, with manual selections
\* and catalog edits by a user in between
NextRescan ==
  \/ CallScan({1}, TRUE)
  \/ ScanStep
  \/ EndScan
  \/ CallSelect
  \/ CallSetUpdateMode
  \/ FreezeAll

RescanSpec == Init /\ [][NextRescan]_vars

\* the start with the catalog RichDB
InitRich == InitEngine(RichDB) /\ call = NoCall

\* a started Scan keeps running: its goroutines are scheduled and every call
\* it makes returns
FairSpec == InitRich /\ [][NextScan]_vars /\ WF_vars(ScanStep)

(***************************************************************************)
(* Calls of the functions without state.  The arguments are drawn at the   *)
(* start, the step applies the function to them.                           *)
(***************************************************************************)
MaxItems == 3   \* longest candidate list given to SelectBestItem

engineVars == <<db, provCfg, t, phase, result, tvsData, nextItem, sem, wg, proc,
                wrote, start, selRet, pending, faults, scans, ext>>

\* the sequences over S of length at most n
SeqsUpTo(S, n) == UNION {[1..k -> S] : k \in 0..n}

\* candidates: the target itself, a case variant, a sequel, the sequel with
\* its words in another order, two near sequels and another show
SelCandidates ==
  { Cand("A", "p1", "a1", Premiered(2001, 1)),
    Cand("a", "p2", "a3", Premiered(2001, 12)),
    Cand("A II", "p2", "a2", Premiered(2011, 3)),
    Cand("II A", "p1", "a4", Premiered(2011, 12)),
    Cand("A I", "p1", "a5", Premiered(2010, 12)),
    Cand("A III", "p2", "a6", Premiered(2012, 1)),
    Cand("B", "p1", "b1", Premiered(2002, 3)) }

SelTitles == {"A", "A II"}
SelYears == {-1, 0, 2001, 2011, 2012}

SelectInputs ==
  {[op |-> "SelectBestItem", items |-> items, title |-> title, year |-> year,
    done |-> FALSE, ret |-> NoData] :
     items \in SeqsUpTo(SelCandidates, MaxItems), title \in SelTitles, year \in SelYears}

InitSelect == InitEngine(EmptyDB) /\ call \in SelectInputs

CallSelectBestItem ==
  /\ call.op = "SelectBestItem" /\ ~call.done
  /\ call' = [call EXCEPT !.done = TRUE,
                          !.ret = SelectBestItem(call.items, call.title, call.year)]
  /\ UNCHANGED engineVars

SelectSpec == InitSelect /\ [][CallSelectBestItem]_vars

MaxPieces == 3   \* pieces a file name of the extraction calls is made of

\* pieces of file names: "Show.", "S02E05", "s1e2", "S1E", "E5", "S3", ".mkv"
NamePieces ==
  { <<"S", "h", "o", "w", ".">>, <<"S", "0", "2", "E", "0", "5">>,
    <<"s", "1", "e", "2">>, <<"S", "1", "E">>, <<"E", "5">>, <<"S", "3">>,
    <<".", "m", "k", "v">> }

RECURSIVE Concat(_)
\* the pieces of ps one after the other
Concat(ps) == IF Len(ps) = 0 THEN <<>> ELSE Head(ps) \o Concat(Tail(ps))

ExtractInputs ==
  {[op |-> "Extract", filename |-> Concat(ps), done |-> FALSE,
    ret |-> [ok |-> FALSE, season |-> 0, episode |-> 0]] :
     ps \in SeqsUpTo(NamePieces, MaxPieces)}

InitExtract == InitEngine(EmptyDB) /\ call \in ExtractInputs

CallExtract ==
  /\ call.op = "Extract" /\ ~call.done
  /\ call' = [call EXCEPT !.done = TRUE, !.ret = Extract(call.filename)]
  /\ UNCHANGED engineVars

ExtractSpec == InitExtract /\ [][CallExtract]_vars

(***************************************************************************)
(* Properties.                                                             *)
(***************************************************************************)
\* the entries whose processItemScan has started and has not returned
InFlight == {i \in Items : proc[i].pc \notin {"idle", "ret", "done"}}

\* C1: with MaxConcurrentScans = N >= 2, at most N executions of
\* processItemScan are in flight in every reachable state.
C1_InFlightBound ==
  t.MaxConcurrentScans >= 2 => Cardinality(InFlight) <= t.MaxConcurrentScans

\* N executions are in flight while another entry waits for a slot
C1_Witness ==
  /\ phase = "running"
  /\ t.MaxConcurrentScans >= 2
  /\ Cardinality(InFlight) = t.MaxConcurrentScans
  /\ nextItem <= NumItems

\* every entry was processed exactly once and its processItemScan is over
AllProcessedOnce == \A i \in Items : proc[i].pc = "done" /\ proc[i].n = 1

\* C2: for every MaxConcurrentScans value a started Scan returns, and when it
\* returns nil every entry of the listing has been processed exactly once and
\* none is still running.
C2_ScanCompletes ==
  /\ (phase = "running") ~> (phase = "returned")
  /\ [](phase = "returned" /\ result = "nil" => AllProcessedOnce)

\* a concurrent Scan has returned after processing both folders
C2_Witness ==
  /\ phase = "returned"
  /\ result = "nil"
  /\ t.MaxConcurrentScans >= 2
  /\ AllProcessedOnce
  /\ Len(db.shows) = 2

\* C3: every provider call made while reconciling a show is answered for the
\* provider id and data this reconciliation passed to Configure, in every
\* interleaving.
C3_AnsweredForOwnBinding == \A i \in Items : ~proc[i].mis

\* C4: Scan returns an error exactly when GetLibrary, ListShow or the
\* directory listing failed, and then no entry was processed and no store
\* write was issued; otherwise it returns nil after every entry was processed,
\* whatever failed while processing an entry.
C4_ScanResult ==
  /\ phase = "running" => ~start.fail /\ result = "none"
  /\ phase = "returned" =>
       /\ result = "error" <=> start.fail
       /\ result = "nil" <=> ~start.fail
       /\ result = "error" => ~wrote /\ \A i \in Items : proc[i].n = 0
       /\ result = "nil" => AllProcessedOnce

\* the first folder failed, the second one was reconciled, Scan returned nil
C4_Witness ==
  /\ phase = "returned"
  /\ result = "nil"
  /\ proc[1].err
  /\ proc[2].pc = "done" /\ ~proc[2].err /\ proc[2].data.id # 0

(***************************************************************************)
(* Properties of the manual selection.  A step is a SelectScraperResult    *)
(* call when it counts as an external call and leaves an outcome.          *)
(***************************************************************************)
SelectStep == ext' = ext + 1 /\ selRet'.res # "none"

\* the batch the call reads, and whether its index is in range
BatchOf(d, r) == GetMultipleResultsByMedia(d, r.mediaType, r.mediaData).data
IndexInRange(d, r) ==
  /\ HasBatch(d, r.mediaType, r.mediaData)
  /\ r.id >= 0
  /\ r.id < Len(BatchOf(d, r))

\* C5: SelectScraperResult returns an error when the index is out of range
\* or no batch exists, and then the store is unchanged.
C5_InvalidSelectionIsError ==
  [][SelectStep /\ ~IndexInRange(db, selRet')
       => selRet'.res = "error" /\ db' = db]_vars

\* the show row carries the binding of candidate c
BoundTo(row, c) ==
  /\ row.scraperName = c.scraperName
  /\ row.scraperID = c.scraperID
  /\ row.scraperData = c.scraperData

\* C6: with a valid index the candidate is applied first and the batch is
\* deleted afterwards: the batch is gone exactly when the call succeeded, a
\* successful call leaves the show bound to the candidate of that index, and
\* a failed call, a failed application included, leaves the batch as it was.
C6_ApplyThenDelete ==
  [][SelectStep /\ IndexInRange(db, selRet') /\ selRet'.mediaType = MediaTypeTvs
       => LET r == selRet'
              c == BatchOf(db, r)[r.id + 1]
          IN /\ r.res \in {"ok", "error"}
             /\ r.res = "ok" <=> ~HasBatch(db', r.mediaType, r.mediaData)
             /\ r.res = "ok" => BoundTo(db'.shows[r.mediaData], c)
             /\ r.res = "error" => BatchOf(db', r) = BatchOf(db, r)
             /\ r.at = "apply" => HasBatch(db', r.mediaType, r.mediaData)]_vars

\* a selection succeeded: the show is bound and its batch is gone
C6_Witness ==
  /\ selRet.res = "ok"
  /\ ~HasBatch(db, selRet.mediaType, selRet.mediaData)
  /\ db.shows[selRet.mediaData].scraperID # ""

\* the rows of show m in d2 are those of d with the selection c applied:
\* binding and force mode on the show, force mode and a cleared binding on
\* its seasons and episodes, no tag or person link; all else as in d
Forced(row) ==
  [row EXCEPT !.mode = ForceMode, !.scraperName = ClearedScraperName,
              !.scraperID = ClearedScraperID]

SelectionApplied(d, d2, m, c) ==
  /\ DOMAIN d2.seasons = DOMAIN d.seasons
  /\ DOMAIN d2.episodes = DOMAIN d.episodes
  /\ BoundTo(d2.shows[m], c)
  /\ d2.shows[m].mode = ForceMode
  /\ \A k \in DOMAIN d.shows : k # m => d2.shows[k] = d.shows[k]
  /\ \A k \in DOMAIN d.seasons :
       d2.seasons[k] = IF d.seasons[k].idShow = m THEN Forced(d.seasons[k])
                       ELSE d.seasons[k]
  /\ \A k \in DOMAIN d.episodes :
       d2.episodes[k] = IF d.episodes[k].idShow = m THEN Forced(d.episodes[k])
                        ELSE d.episodes[k]
  /\ d2.tagLinks = {l \in d.tagLinks : l[1] # m}
  /\ d2.personLinks = {l \in d.personLinks : l[1] # m}

\* auto-add applied a selection for entry i in this step, without a failure
AutoApplyStep(i) ==
  /\ proc[i].pc = "addTVS"
  /\ proc'[i].pc = "cfg"
  /\ faults' = faults

\* C7: after UpdateWithSelectionResult succeeded, from a manual selection or
\* from auto-add, the show has the new binding and force mode, each of its
\* seasons and episodes is in force mode with its binding cleared, the show
\* has no tag and no person link, and the rows of other shows are unchanged.
C7_SelectionApplied ==
  [][/\ SelectStep /\ selRet'.res = "ok"
          => SelectionApplied(db, db', selRet'.mediaData,
                              BatchOf(db, selRet')[selRet'.id + 1])
     /\ \A i \in Items : AutoApplyStep(i)
          => SelectionApplied(db, db', proc'[i].data.id,
                              [scraperName |-> proc'[i].data.scraperName,
                               scraperID |-> proc'[i].data.scraperID,
                               scraperData |-> proc'[i].data.scraperData])]_vars

\* a selection succeeded on a show that had seasons, episodes and links
C7_Witness ==
  /\ selRet.res = "ok"
  /\ selRet.rich
  /\ \E r \in Range(db.seasons) : r.idShow = selRet.mediaData /\ r.mode = ForceMode
  /\ \E r \in Range(db.episodes) : r.idShow = selRet.mediaData /\ r.mode = ForceMode

\* the first n store calls of the selection c on show m took effect between
\* d and d2, the later ones did not
PrefixApplied(d, d2, m, c, n) ==
  /\ DOMAIN d2.shows = DOMAIN d.shows
  /\ DOMAIN d2.seasons = DOMAIN d.seasons
  /\ DOMAIN d2.episodes = DOMAIN d.episodes
  /\ \A k \in DOMAIN d.shows :
       IF k = m /\ n >= 1
       THEN BoundTo(d2.shows[k], c) /\ d2.shows[k].mode = ForceMode
       ELSE d2.shows[k] = d.shows[k]
  /\ \A k \in DOMAIN d.seasons :
       d2.seasons[k] = IF d.seasons[k].idShow = m /\ n >= 2 THEN Forced(d.seasons[k])
                       ELSE d.seasons[k]
  /\ \A k \in DOMAIN d.episodes :
       d2.episodes[k] = IF d.episodes[k].idShow = m /\ n >= 3 THEN Forced(d.episodes[k])
                        ELSE d.episodes[k]
  /\ d2.tagLinks = IF n >= 4 THEN {l \in d.tagLinks : l[1] # m} ELSE d.tagLinks
  /\ d2.personLinks = IF n >= 5 THEN {l \in d.personLinks : l[1] # m} ELSE d.personLinks

\* the last selection call repeated the pending selection
RerunOfPending ==
  /\ pending.active
  /\ selRet.mediaType = MediaTypeTvs
  /\ selRet.mediaData = pending.mediaData
  /\ selRet.id = pending.id

\* C8: UpdateWithSelectionResult makes its five store calls in the order
\* binding, seasons, episodes, tag links, person links; when call k fails the
\* error is returned, the calls before k have taken effect and no later call
\* is made; repeating the same selection until it succeeds gives the state a
\* selection without failure would have given.
C8_AbortAndRerun ==
  /\ [][SelectStep /\ selRet'.at = "apply"
          => /\ selRet'.res = "error"
             /\ selRet'.failAt \in 1..NumSelectionSteps
             /\ PrefixApplied(db, db', selRet'.mediaData,
                              BatchOf(db, selRet')[selRet'.id + 1], selRet'.failAt - 1)
             /\ db'.batches = db.batches]_vars
  /\ [](RerunOfPending /\ selRet.res = "ok" => db = pending.goal)

\* a selection on a show with seasons failed part way, its rerun succeeded
C8_Witness ==
  /\ RerunOfPending
  /\ selRet.res = "ok"
  /\ \E r \in Range(db.seasons) : r.idShow = selRet.mediaData
  /\ \E r \in Range(db.episodes) : r.idShow = selRet.mediaData

\* C9 as stated: a second Scan with the same options, started with every
\* show, season and episode frozen, issues no store write.
C9_SecondRunWritesNothing ==
  scans >= 2 /\ start.frozen /\ start.same /\ ~start.lookupErr => ~wrote

\* C9: a Scan started when every folder is a known show, every show, season
\* and episode is frozen and every file of a bound show that yields a
\* (season, episode) pair has a video file entry which the lookup of the scan
\* returns, issues no store write.
C9_QuietScanWritesNothing == start.quiet /\ ~start.lookupErr => ~wrote

\* a second run over registered files of frozen shows returned without a write
C9_Witness ==
  /\ phase = "returned"
  /\ result = "nil"
  /\ scans >= 2
  /\ start.quiet /\ start.same
  /\ ~wrote
  /\ Len(db.videoFiles) > 0
  /\ \E i \in Items : proc[i].fi > Len(VideoFiles(proc[i].data.path))

\* the frozen rows of a table are the same after the step
FrozenKept(rows, rows2) ==
  \A k \in DOMAIN rows : rows[k].mode = Frozen => rows2[k] = rows[k]

\* auto-add applies a selection to show m in this step
AutoApplied(m) ==
  \E i \in Items :
    proc[i].pc = "addTVS" /\ proc'[i].pc = "cfg" /\ proc'[i].data.id = m

\* a frozen row is kept, or forced by a selection that auto-add applies
FrozenKeptOrForced(rows, rows2) ==
  \A k \in DOMAIN rows : rows[k].mode = Frozen =>
    \/ rows2[k] = rows[k]
    \/ AutoApplied(rows[k].idShow) /\ rows2[k] = Forced(rows[k])

Selected == call.op = "SelectBestItem" /\ call.done

\* the candidates of the call that pass the year filter of the code
InYear(c) == call.year > 0 => YearOf(c.premiered) = call.year
Considered == {c \in Range(call.items) : InYear(c)}

ScoreOf(c) == Score(call.title, c.title)

\* C11: SelectBestItem returns a candidate only if its score is above 85 and
\* it is one of the year filtered candidates; when no year filtered candidate
\* scores above 85 (none at all, or a best score of exactly 85) it returns
\* the error "no data" and the empty candidate
C11_AcceptAbove85 ==
  Selected =>
    /\ call.ret.ok => call.ret.item \in Considered /\ ScoreOf(call.ret.item) > 85
    /\ (\A c \in Considered : ScoreOf(c) <= 85)
         => ~call.ret.ok /\ call.ret.err = "no data"
            /\ call.ret.item = Cand("", "", "", 0)

\* a call whose best candidate scores exactly 85 has failed
C11_Witness ==
  /\ Selected /\ ~call.ret.ok
  /\ \E c \in Considered : ScoreOf(c) = 85
  /\ \A c \in Considered : ScoreOf(c) <= 85

\* positions of the candidates whose title is the target title
Identical == {i \in DOMAIN call.items : call.items[i].title = call.title}
\* positions of the candidates of score 100
Full == {i \in DOMAIN call.items : ScoreOf(call.items[i]) = 100}

\* C12: with no year filter and exactly one candidate whose title is the
\* target title, that candidate is returned, whatever the input order and
\* whatever other candidates differ from the target in case or word order
C12_IdenticalAlwaysWins ==
  Selected /\ call.year = 0 /\ Cardinality(Identical) = 1 =>
    /\ call.ret.ok
    /\ \A i \in Identical : call.ret.item = call.items[i]
    /\ ScoreOf(call.ret.item) = 100

\* C12 as amended: the candidate returned is the first one of the input
\* whose score is 100; it is the identical one when no candidate before it
\* differs from the target in case only; a candidate with the words in
\* another order scores 95 and is not returned
C12_FirstFullScoreWins ==
  Selected /\ call.year = 0 /\ Cardinality(Identical) = 1 =>
    /\ call.ret.ok
    /\ ScoreOf(call.ret.item) = 100
    /\ \E i \in Full : call.ret.item = call.items[i] /\ \A j \in Full : i <= j
    /\ (\A i \in Identical : \A j \in Full : i <= j)
         => \A i \in Identical : call.ret.item = call.items[i]

\* the identical candidate comes last, after its word order variant and
\* another candidate, and is returned
C12_Witness ==
  /\ Selected /\ call.year = 0 /\ Cardinality(Identical) = 1
  /\ Len(call.items) = 3 /\ Identical = {3} /\ Full = {3}
  /\ \E j \in 1..2 : ScoreOf(call.items[j]) = 95
  /\ call.ret.item = call.items[3]

\* C13: with a year other than zero no candidate whose premiere is in
\* another year is returned; with year zero every candidate is considered
C13_YearNonZeroFilters ==
  Selected =>
    /\ call.year # 0 /\ call.ret.ok => YearOf(call.ret.item.premiered) = call.year
    /\ call.year = 0 =>
         (call.ret.ok <=> \E c \in Range(call.items) : ScoreOf(c) > 85)

\* C13 as amended: the year filters when it is greater than zero; with a
\* year of zero or less every candidate is considered
C13_YearAboveZeroFilters ==
  Selected =>
    /\ call.year > 0 /\ call.ret.ok => YearOf(call.ret.item.premiered) = call.year
    /\ call.year > 0 /\ (\A c \in Range(call.items) :
                            YearOf(c.premiered) = call.year => ScoreOf(c) <= 85)
         => ~call.ret.ok
    /\ call.year <= 0 =>
         /\ call.ret.ok <=> \E c \in Range(call.items) : ScoreOf(c) > 85
         /\ call.ret.ok => \A c \in Range(call.items) : ScoreOf(c) <= ScoreOf(call.ret.item)

\* a call with a year that left out the identical candidate and returned a
\* candidate of a lower score
C13_Witness ==
  /\ Selected /\ call.year > 0 /\ call.ret.ok
  /\ \E c \in Range(call.items) :
       YearOf(c.premiered) # call.year /\ ScoreOf(c) > ScoreOf(call.ret.item)

(***************************************************************************)
(* File name extraction.                                                   *)
(***************************************************************************)
Extracted == call.op = "Extract" /\ call.done

\* f[i..k] is a token S<number>E<number>: an S, the digits f[i+1..j], an E,
\* the digits f[j+2..k]
TokenAt(f, i, j, k) ==
  /\ 1 <= i /\ i < j /\ j + 1 < k /\ k <= Len(f)
  /\ f[i] \in {"s", "S"} /\ f[j + 1] \in {"e", "E"}
  /\ \A n \in (i + 1)..j : f[n] \in Digits
  /\ \A n \in (j + 2)..k : f[n] \in Digits
  /\ k = Len(f) \/ f[k + 1] \notin Digits

Tokens(f) ==
  {tok \in (1..Len(f)) \X (1..Len(f)) \X (1..Len(f)) : TokenAt(f, tok[1], tok[2], tok[3])}

\* C14: the extraction yields a pair only for a file name with a token
\* S<number>E<number>, and then the season and the episode are the two
\* numbers of one and the same token; a name without such a token (a season
\* like or an episode like token alone) yields a failure
C14_PairFromOneToken ==
  Extracted =>
    LET f == call.filename
    IN /\ call.ret.ok <=> Tokens(f) # {}
       /\ call.ret.ok =>
            \E tok \in Tokens(f) :
              /\ call.ret.season = Atoi(f, tok[1] + 1, tok[2])
              /\ call.ret.episode = Atoi(f, tok[2] + 2, tok[3])

(***************************************************************************)
(* The show part of processItemScan.                                       *)
(***************************************************************************)
\* the step of entry i that runs addTVS
AddStep(i) == proc[i].pc = "addTVS" /\ proc'[i].pc # "addTVS"

\* the folder of entry i matched no show path: the row has no id yet
NewFolder(i) == proc[i].data.id = 0

\* the step appends a show row with the folder name as title
RowAppended(i) ==
  /\ Len(db'.shows) = Len(db.shows) + 1
  /\ db'.shows[Len(db'.shows)].title = LibItems[i].name
  /\ \A k \in DOMAIN db.shows : db'.shows[k].title = db.shows[k].title

\* steps of a Scan other than addTVS for a new folder add no show row
NoOtherAddShow ==
  phase = "running" /\ (\A i \in Items : ~(AddStep(i) /\ NewFolder(i)))
    => Len(db'.shows) = Len(db.shows)

\* no step of an entry that is not a directory changes the store
NotDirCreatesNothing ==
  \A i \in Items : ~LibItems[i].dir /\ proc'[i] # proc[i] /\ phase = "running"
                      => db' = db

\* C15: for every folder that matches no show path, addTVS issues AddShow
\* and a show row with the folder name as title is created (unless the store
\* refuses it), whatever the providers return and whatever the options are;
\* this is the only AddShow for the folder; other entries create nothing
C15_NewFolderAlwaysAdded ==
  [][/\ \A i \in Items : AddStep(i) /\ NewFolder(i) =>
          /\ RowAppended(i) \/ (proc'[i].err /\ wrote')
          /\ ~wrote => wrote'
     /\ NoOtherAddShow
     /\ NotDirCreatesNothing]_vars

\* C15 as amended: the row is created when a provider returned a candidate
\* or add-unknown is set, and the store accepts it; with add-unknown unset
\* and no candidate (no provider found one, or every search failed) addTVS
\* returns an error before AddShow and nothing is written
C15_NewFolderAddedUnlessNoData ==
  [][/\ \A i \in Items : AddStep(i) /\ NewFolder(i) =>
          /\ \/ RowAppended(i)
             \/ db' = db /\ proc'[i].err /\ proc'[i].pc = "ret" /\ faults' > faults
          /\ faults' = faults => RowAppended(i)
          /\ t.AddUnknown /\ ~wrote => wrote'
     /\ NoOtherAddShow
     /\ NotDirCreatesNothing]_vars

\* a new folder got its row in a Scan without add-unknown, and the entry
\* that is no directory was processed
C15_Witness ==
  /\ phase = "running" /\ ~t.AddUnknown
  /\ \E i \in Items :
       /\ LibItems[i].dir /\ proc[i].pc = "done"
       /\ proc[i].data.id > Len(tvsData)
       /\ db.shows[proc[i].data.id].title = LibItems[i].name
  /\ \E i \in Items : ~LibItems[i].dir /\ proc[i].pc = "done"

\* the results of the providers, in priority order, those of the set failed
\* left out
ResultsWithout(title, failed) ==
  Concat([k \in DOMAIN ProviderNames |->
            IF k \in failed THEN <<>> ELSE SearchTVS(ProviderNames[k], title)])

\* the match selector accepts a candidate of cands, and the one it takes
Acceptable(cands, title) == \E c \in Range(cands) : Score(title, c.title) > ScoreThreshold
BestOf(cands, title) ==
  cands[CHOOSE k \in DOMAIN cands :
          /\ \A j \in DOMAIN cands : Score(title, cands[j].title) <= Score(title, cands[k].title)
          /\ \A j \in 1..(k - 1) : Score(title, cands[j].title) < Score(title, cands[k].title)]

\* the rows of seasons, episodes and video files are as before the step
NoEpisodeWork ==
  /\ db'.seasons = db.seasons
  /\ db'.episodes = db.episodes
  /\ db'.videoFiles = db.videoFiles

\* the batch of show m after the step is cands, or, when a store call of
\* the step failed, the batch of before or none
BatchPersisted(m, cands, storeOk) ==
  IF storeOk
  THEN /\ HasBatch(db', MediaTypeTvs, m)
       /\ GetMultipleResultsByMedia(db', MediaTypeTvs, m).data = cands
  ELSE \/ ~HasBatch(db', MediaTypeTvs, m)
       \/ /\ HasBatch(db, MediaTypeTvs, m)
          /\ GetMultipleResultsByMedia(db', MediaTypeTvs, m)
               = GetMultipleResultsByMedia(db, MediaTypeTvs, m)

\* what addTVS does in the step of entry i with the searches of the set
\* failed failing: it stops when the store refuses the row of a new folder,
\* and uses the candidates otherwise
AddTVSOutcome(i, failed) ==
  LET title == proc[i].data.title
      cands == ResultsWithout(title, failed)
      storeOk == Cardinality(failed) = faults' - faults
      m == proc'[i].data.id
  IN \/ NewFolder(i) /\ ~storeOk /\ proc'[i].err /\ proc'[i].pc = "ret" /\ db' = db
     \/ IF t.AutoAdd /\ Acceptable(cands, title)
        THEN /\ proc'[i].pc = "cfg"
             /\ BoundTo(proc'[i].data, BestOf(cands, title))
             /\ storeOk => BoundTo(db'.shows[m], BestOf(cands, title))
        ELSE /\ proc'[i].pc = "ret" /\ ~proc'[i].err
             /\ m \in DOMAIN db'.shows
             /\ Unbound(db'.shows[m]) /\ Unbound(proc'[i].data)
             /\ BatchPersisted(m, cands, storeOk)
             /\ NoEpisodeWork

\* the sets of providers whose search can have failed in the step
FailedSearches ==
  {failed \in SUBSET DOMAIN ProviderNames : Cardinality(failed) <= faults' - faults}

\* an entry that returned from addTVS without a binding does nothing more
UnboundDoesNothingMore ==
  \A i \in Items : proc[i].pc = "ret" /\ Unbound(proc[i].data) /\ proc'[i] # proc[i]
                      => db' = db /\ proc'[i].pc = "done"

\* C16: addTVS asks every provider in priority order and concatenates the
\* results of the searches that succeed; with auto-add and a candidate the
\* match selector accepts, the binding of that candidate is applied and the
\* show goes on to its refresh; otherwise the concatenated batch is
\* persisted for the show, no binding is written and no season, episode or
\* video file is created for the show
C16_SelectOrPersist ==
  [][/\ \A i \in Items : AddStep(i) => \E failed \in FailedSearches : AddTVSOutcome(i, failed)
     /\ UnboundDoesNothingMore]_vars

\* C16 as amended: when no search gave a candidate and add-unknown is
\* unset, addTVS returns an error at once: nothing is persisted and the
\* batch of an earlier scan stays
C16_SelectOrPersistUnlessNoData ==
  [][/\ \A i \in Items : AddStep(i) =>
          \E failed \in FailedSearches :
            IF Len(ResultsWithout(proc[i].data.title, failed)) = 0 /\ ~t.AddUnknown
            THEN /\ Cardinality(failed) = faults' - faults
                 /\ db' = db /\ proc'[i].err /\ proc'[i].pc = "ret"
            ELSE AddTVSOutcome(i, failed)
     /\ UnboundDoesNothingMore]_vars

\* the batch of a show is the results of both providers in priority order,
\* persisted by a Scan without auto-add
C16_Witness ==
  /\ phase = "running" /\ ~t.AutoAdd
  /\ \E i \in Items :
       /\ proc[i].pc = "done" /\ proc[i].data.id \in DOMAIN db.shows
       /\ Unbound(db.shows[proc[i].data.id])
       /\ HasBatch(db, MediaTypeTvs, proc[i].data.id)
       /\ LET b == GetMultipleResultsByMedia(db, MediaTypeTvs, proc[i].data.id).data
          IN Len(b) = 2 /\ b[1].scraperName = ProviderNames[1]
                        /\ b[2].scraperName = ProviderNames[2]

(***************************************************************************)
(* Frozen shows.                                                           *)
(***************************************************************************)
\* the folder of entry i is the path of a show that was frozen when the
\* Scan listed the shows
KnownFrozen(i) ==
  /\ LibItems[i].dir
  /\ \E j \in DOMAIN tvsData : tvsData[j].path = LibItems[i].name
                               /\ tvsData[j].mode = Frozen

\* a step of the processItemScan of such an entry
FrozenStep(i) ==
  phase = "running" /\ proc[i].pc # "idle" /\ proc'[i] # proc[i] /\ KnownFrozen(i)

\* no search, no refresh of the show, no write to the show
ShowLeftAlone(i) ==
  /\ proc'[i].pc \notin {"addTVS", "cfg", "getTVS"}
  /\ db'.shows = db.shows
  /\ db'.batches = db.batches
  /\ db'.tagLinks = db.tagLinks /\ db'.personLinks = db.personLinks

Stage(pc) ==
  CASE pc = "idle" -> 0 [] pc = "begin" -> 1 [] pc = "addTVS" -> 2 [] pc = "cfg" -> 3
    [] pc = "getTVS" -> 4 [] pc = "epCfg" -> 5 [] pc = "seasons" -> 6
    [] pc = "file" -> 7 [] pc = "ret" -> 8 [] pc = "done" -> 9

\* a step of the processItemScan of entry i
StepOf(i) == phase = "running" /\ proc[i].pc # "idle" /\ proc'[i] # proc[i]

\* the step goes forward: to a later part, or to the next file
GoesForward(i) ==
  \/ Stage(proc'[i].pc) > Stage(proc[i].pc)
  \/ proc[i].pc = "file" /\ proc'[i].pc = "file" /\ proc'[i].fi = proc[i].fi + 1

\* the show part is over for entry i: its show row is not written any more
ShowWriteFirst(i) == Stage(proc[i].pc) >= 5 => db'.shows = db.shows

\* season rows are refreshed in the seasons part only, before the files
SeasonRefreshBeforeFiles(i) ==
  Stage(proc[i].pc) >= 7 \/ Stage(proc[i].pc) \in {3, 4, 5}
    => \A k \in DOMAIN db.seasons : db'.seasons[k] = db.seasons[k]

\* seasons, episodes and video files are created in the files part only
CreatedInFilesPart(i) ==
  proc[i].pc # "file"
    => /\ Len(db'.seasons) = Len(db.seasons)
       /\ Len(db'.episodes) = Len(db.episodes)
       /\ db'.videoFiles = db.videoFiles

\* the season of an episode row created by the step is in the list of the
\* seasons of the show by then, and a season that was not in the list before
\* the step has its row added by the same step when no call of the step
\* failed; a video file entry created by the step is for the episode the
\* step created
SeasonEpisodeFile(i) ==
  /\ Len(db'.episodes) \in {Len(db.episodes), Len(db.episodes) + 1}
  /\ Len(db'.episodes) > Len(db.episodes)
       => LET e == db'.episodes[Len(db'.episodes)]
          IN /\ e.idShow = proc[i].data.id
             /\ Contains(proc'[i].seasons, e.season)
             /\ ~Contains(proc[i].seasons, e.season) /\ faults' = faults
                  => /\ Len(db'.seasons) = Len(db.seasons) + 1
                     /\ db'.seasons[Len(db'.seasons)].idShow = e.idShow
                     /\ db'.seasons[Len(db'.seasons)].season = e.season
  /\ Len(db'.videoFiles) \in {Len(db.videoFiles), Len(db.videoFiles) + 1}
  /\ Len(db'.videoFiles) > Len(db.videoFiles)
       => /\ Len(db'.episodes) = Len(db.episodes) + 1
          /\ db'.videoFiles[Len(db'.videoFiles)].mediaData = Len(db'.episodes)

\* an error of the show part ends the processing of the entry
ErrorEndsEntry(i) ==
  Stage(proc[i].pc) \in 2..4 /\ proc'[i].err => proc'[i].pc = "ret"

\* C18: the operations on one show are in this order: the show is written,
\* then its seasons are refreshed, then its video files are matched; in the
\* matching of a file the season is created before the episode and the
\* episode before the video file entry; after a failed refresh of the show
\* no season and no episode of the show is processed
C18_ShowSeasonsEpisodesFiles ==
  [][\A i \in Items : StepOf(i) =>
       /\ GoesForward(i)
       /\ ShowWriteFirst(i)
       /\ SeasonRefreshBeforeFiles(i)
       /\ CreatedInFilesPart(i)
       /\ SeasonEpisodeFile(i)
       /\ ErrorEndsEntry(i)]_vars

\* a show that was in force mode at the start of the Scan was written, a
\* season of it was refreshed, and the last file of its folder got a new
\* season, a new episode and its video file entry
C18_Witness ==
  /\ phase = "running"
  /\ \E i \in Items : \E j \in DOMAIN tvsData :
       /\ proc[i].pc = "done" /\ ~proc[i].err
       /\ tvsData[j].path = LibItems[i].name /\ tvsData[j].mode = ForceMode
       /\ db.shows[j].mode = JustUpdated
       /\ \E r \in Range(db.seasons) :
            r.idShow = j /\ r.mode = JustUpdated /\ r.scraperName = tvsData[j].scraperName
       /\ Len(db.videoFiles) > 0 /\ Len(db.episodes) > 0
       /\ db.videoFiles[Len(db.videoFiles)].mediaData = Len(db.episodes)
       /\ db.episodes[Len(db.episodes)].idShow = j

(***************************************************************************)
(* A video file without entry (updateTVSEpisode, lines 439-543).           *)
(***************************************************************************)
\* the step is one call of updateTVSEpisode for entry i
FileStep(i) ==
  phase = "running" /\ proc[i].pc = "file" /\ proc'[i].fi = proc[i].fi + 1

\* the file of the call and its path in the library
ThisFile(i) == VideoFiles(proc[i].data.path)[proc[i].fi]
ThisPath(i) == <<proc[i].data.path, FileName(ThisFile(i))>>

\* the store has no video file entry for the file of the call
NoEntry(i) == GetVideoFileFromPath(db, ThisPath(i)) = 0

\* the step adds one episode row of the show, with these numbers
OneEpisode(i, season, episode) ==
  /\ Len(db'.episodes) = Len(db.episodes) + 1
  /\ \A k \in DOMAIN db.episodes : db'.episodes[k] = db.episodes[k]
  /\ LET e == db'.episodes[Len(db'.episodes)]
     IN e.idShow = proc[i].data.id /\ e.season = season /\ e.episode = episode

\* the step adds one video file entry: the file, for the episode just added
Registered(i) ==
  db'.videoFiles =
    Append(db.videoFiles, [path |-> ThisPath(i), mediaData |-> Len(db.episodes) + 1])

\* neither an episode nor a video file entry is added
NothingForFile ==
  db'.episodes = db.episodes /\ db'.videoFiles = db.videoFiles

\* the outcome of a call for a file without entry, as the four cases
NewFileOutcome(i) ==
  LET x == Extract(ThisFile(i))
      hasData == HasEpisode(Answer(i), x.season, x.episode, {})
      last == db'.episodes[Len(db'.episodes)]
  IN /\ ~x.ok => db' = db
     /\ x.ok /\ hasData /\ faults' = faults
          => /\ OneEpisode(i, x.season, x.episode) /\ Registered(i)
             /\ last.scraperID = Answer(i).id /\ last.title # FileName(ThisFile(i))
     /\ x.ok /\ ~hasData /\ t.AddUnknown /\ faults' = faults
          => /\ OneEpisode(i, x.season, x.episode) /\ Registered(i)
             /\ last.scraperID = "" /\ last.title = FileName(ThisFile(i))
     /\ x.ok /\ ~hasData /\ ~t.AddUnknown => NothingForFile
     /\ db'.videoFiles # db.videoFiles
          => x.ok /\ OneEpisode(i, x.season, x.episode) /\ Registered(i)

\* the show of the call has an episode row with the numbers of the file
Taken(i) ==
  LET x == Extract(ThisFile(i))
  IN x.ok /\ HasEpisodeRow(db, proc[i].data.id, x.season, x.episode)

OneVideoFilePerPath ==
  \A k, m \in DOMAIN db.videoFiles :
    db.videoFiles[k].path = db.videoFiles[m].path => k = m

\* C20: whatever Scans have run before, a call of updateTVSEpisode for a
\* file that has a video file entry calls neither AddShowEpisode nor
\* AddVideoFile, so that there is never more than one entry for a path
C20_KnownFileNeverAddedAgain ==
  [][\A i \in Items : FileStep(i) /\ ~NoEntry(i)
       => proc'[i].calls \cap {"AddShowEpisode", "AddVideoFile"} = {}]_vars

\* the same, for the calls in which the lookup of the entry succeeds
KnownFileNotAddedIfFound ==
  [][\A i \in Items : FileStep(i) /\ ~NoEntry(i) /\ faults' = faults
       => proc'[i].calls = {}]_vars

(***************************************************************************)
(* One episode per (show, season number, episode number).                  *)
(***************************************************************************)
\* C21: whatever Scans have run, no two episode rows have the same show,
\* season number and episode number, also when two video files of a folder
\* give the same numbers and when the video file of an episode could not be
\* registered by an earlier Scan
C21_OneEpisodePerKey ==
  \A k, m \in DOMAIN db.episodes :
    /\ db.episodes[k].idShow = db.episodes[m].idShow
    /\ db.episodes[k].season = db.episodes[m].season
    /\ db.episodes[k].episode = db.episodes[m].episode
    => k = m

\* a second Scan has come to a file without entry whose numbers an episode
\* of the show has, left by a Scan whose AddVideoFile failed, and to the
\* second file of the folder with these numbers: both called AddShowEpisode
C21_Witness ==
  /\ phase = "running" /\ scans >= 2 /\ faults = 1
  /\ \A v \in Range(db.videoFiles) : v.path[1] # "A"
  /\ HasEpisodeRow(db, 1, 1, 1)
  /\ \E i \in Items :
       /\ proc[i].pc = "done" /\ proc[i].data.path = "A" /\ proc[i].data.id = 1
       /\ proc[i].fi = 4 /\ proc[i].calls = {"AddShowEpisode"}

(***************************************************************************)
(* The update mode after a refresh.                                        *)
(***************************************************************************)
\* the update mode written by a refresh is none of the other values
SentinelApart ==
  JustUpdated # Frozen /\ ~(JustUpdated > 0) /\ JustUpdated # ForceMode

\* updateTVS of entry i: the show row is in the just-updated mode when the
\* refresh succeeds and whenever the row was written
ShowRefreshed(i) ==
  proc[i].pc = "getTVS" /\ (~proc'[i].err \/ db'.shows # db.shows)
    => db'.shows[proc[i].data.id].mode = JustUpdated

\* updateTVSSeasons of entry i: a season of the show in a mode above zero
\* that the provider has is in the just-updated mode when no call failed,
\* and so is every season row that was written
SeasonsRefreshed(i) ==
  proc[i].pc = "seasons"
    => \A k \in DOMAIN db.seasons :
         /\ db'.seasons[k] # db.seasons[k] => db'.seasons[k].mode = JustUpdated
         /\ /\ db.seasons[k].idShow = proc[i].data.id /\ db.seasons[k].mode > 0
            /\ HasSeason(Answer(i), db.seasons[k].season, {}) /\ faults' = faults
            => db'.seasons[k].mode = JustUpdated

\* updateTVSEpisode of entry i for a file with an entry: the episode, in a
\* mode above zero, that the provider has is in the just-updated mode when
\* no call failed, and so is every episode row that was written
EpisodeRefreshed(i) ==
  proc[i].pc = "file"
    => /\ \A k \in DOMAIN db.episodes :
            db'.episodes[k] # db.episodes[k] => db'.episodes[k].mode = JustUpdated
       /\ LET idEp == GetVideoFileFromPath(db, ThisPath(i))
          IN /\ idEp \in DOMAIN db.episodes /\ db.episodes[idEp].mode > 0
             /\ HasEpisode(Answer(i), db.episodes[idEp].season,
                           db.episodes[idEp].episode, {})
             /\ faults' = faults
             => db'.episodes[idEp].mode = JustUpdated

\* C22: after a successful refresh of a show, a season or an episode by a
\* Scan the update mode of the row is the just-updated value, and this
\* value is not the frozen value 0, not a value above zero and not the
\* value UpdateWithSelectionResult writes
C22_JustUpdatedAfterRefresh ==
  [][/\ SentinelApart
     /\ \A i \in Items : StepOf(i) =>
          ShowRefreshed(i) /\ SeasonsRefreshed(i) /\ EpisodeRefreshed(i)]_vars

\* a Scan without failed call has refreshed a show that a selection had
\* bound to another provider id, and the season of the show: the season
\* row is older than the binding, as the episode of the first binding is
C22_Witness ==
  /\ phase = "running" /\ faults = 0
  /\ Len(tvsData) > 0 /\ Len(db.shows) > 0
  /\ \E i \in Items :
       /\ proc[i].pc = "done" /\ ~proc[i].err /\ proc[i].data.id = 1
       /\ tvsData[1].mode = ForceMode /\ tvsData[1].scraperID = "a2"
       /\ db.shows[1].mode = JustUpdated /\ db.shows[1].title = ProviderTitle("a2")
       /\ Len(db.seasons) > 0 /\ Len(db.episodes) > 0
       /\ db.seasons[1].idShow = 1 /\ db.seasons[1].title = "a2-s1"
       /\ db.seasons[1].mode = JustUpdated
       /\ db.episodes[1].idShow = 1 /\ db.episodes[1].title = "a1-s1e1"

(***************************************************************************)
(* A store error in the selection applied by auto-add.                     *)
(***************************************************************************)
\* the step is the addTVS of entry i, auto-add has selected a candidate and
\* a store call of UpdateWithSelectionResult has failed: selErr is the
\* number of the failing call, 0 for none
ApplierFailed(i) ==
  proc[i].pc = "addTVS" /\ t.AutoAdd /\ proc'[i].selErr # 0

\* C23: when auto-add has selected a candidate and a store call of
\* UpdateWithSelectionResult fails, the error ends the processing of the
\* show: the show is not refreshed and its video files are not scanned on
\* top of the selection that was applied in part
C23_ApplierErrorSurfaced ==
  [][\A i \in Items : StepOf(i) /\ ApplierFailed(i)
       => proc'[i].err /\ proc'[i].pc = "ret"]_vars

\* what the code does instead: the error is dropped and updateTVS is called
ApplierErrorDropped ==
  [][\A i \in Items : StepOf(i) /\ ApplierFailed(i)
       => ~proc'[i].err /\ proc'[i].pc = "cfg"]_vars

(***************************************************************************)
(* The season of a new episode.                                            *)
(***************************************************************************)
\* the store has a season row of the show with this number
HasSeasonRow(d, idShow, season) ==
  \E r \in Range(d.seasons) : r.idShow = idShow /\ r.season = season

\* a call of updateTVSEpisode calls AddShowSeason only for a season number
\* that is not in the list of the seasons of the show, which holds the
\* numbers of the catalog and those AddShowSeason was called for, and that
\* the catalog has no row for
SeasonAddedOnce(i) ==
  "AddShowSeason" \in proc'[i].calls
    => LET x == Extract(ThisFile(i))
       IN /\ x.ok /\ ~Contains(proc[i].seasons, x.season)
          /\ Contains(proc'[i].seasons, x.season)
          /\ ~HasSeasonRow(db, proc[i].data.id, x.season)

\* an episode row added by the call has its season row in the catalog
EpisodeHasSeason(i) ==
  Len(db'.episodes) > Len(db.episodes)
    => LET e == db'.episodes[Len(db'.episodes)]
       IN HasSeasonRow(db', e.idShow, e.season)

\* C24: in the processing of one show AddShowSeason is called at most once
\* for a season number and never for a number the catalog lists for the
\* show, and every episode row a Scan creates has a season row for its show
\* and season number in the catalog when it is created, also when the store
\* has rejected the AddShowSeason
C24_SeasonOnceAndBeforeEpisode ==
  [][\A i \in Items : FileStep(i) => SeasonAddedOnce(i) /\ EpisodeHasSeason(i)]_vars

\* the part of C24 on the calls of AddShowSeason
SeasonAddedOnceOnly ==
  [][\A i \in Items : FileStep(i) => SeasonAddedOnce(i)]_vars

\* the part of C24 on the season row of a new episode, for the Scans in
\* which no call has failed
EpisodeHasSeasonIfNoFailure ==
  [][\A i \in Items : FileStep(i) /\ faults' = 0 => EpisodeHasSeason(i)]_vars
====
